---- MODULE Spec2Model ----
(***************************************************************************)
(* Model of the chat session engine of darwishdev/genaiclient:             *)
(* Chat.SendMessage, Chat.SendMessageStream, Chat.SendToolResponse,        *)
(* Agent.Generate and the response adapter they share; the construction    *)
(* of a chat over its persisted history (NewChat, Agent.NewChat,           *)
(* Agent.GetChat); cloneGenerationConfig and mergeGenerationConfig; the    *)
(* agent's tool list, the adapter conversions, the Redis client, the       *)
(* agent factory of GenaiClient and RedisSessionService.                   *)
(*                                                                         *)
(* Texts are sequences of one-character tokens. "{}" stands for the JSON   *)
(* text json.Marshal gives for a part that is neither text nor a function  *)
(* call. Errors are sequences of strings: <<>> is nil, <<w, c>> is the     *)
(* cause c wrapped by w.                                                   *)
(***************************************************************************)
EXTENDS Integers, Sequences, FiniteSets, TLC

VARIABLES
    log,      \* the chat's persisted message list, entries tagged with their turn
    turn,     \* number of calls issued so far
    ops,      \* the operation of each turn, in call order
    last,     \* the last synchronous call: its inputs, events and return value
    st,       \* the goroutine and output channel of the latest SendMessageStream
    overlap,  \* a chat call was issued before an earlier stream had closed its channel
    calls,    \* the SendMessage calls of concurrent callers of one chat, step by step
    chat,     \* the latest construction of a chat: its outcome and the session built
    heap,     \* the generation configs in memory: the agent's default and the copies
    gen,      \* the Agent.Generate calls of concurrent callers, step by step
    agent,    \* the agent's persisted config, the session built from it, the last tool call
    conv,     \* the last conversion made by the adapter: its input and its result
    redis,    \* the persistence gateway: its mode, the external store, its last operation
    live,     \* the contents the chat's live upstream session has exchanged so far
    client,   \* the Genaiclient: the configs in its store, the agents and chats it handed out
    sess      \* the RedisSessionService: its server, the sessions held, its last call

vars == <<log, turn, ops, last, st, overlap, calls, chat, heap, gen, agent, conv, redis,
         live, client, sess>>

\* what the agent, the adapter and the persistence gateway leave alone
backstage == <<live, sess>>
further == <<backstage, client>>

\* what the chat and the generation calls leave alone
elsewhere == <<agent, conv, redis, further>>

\* what the calls on one chat by one caller leave alone
outsideChat == <<calls, chat, heap, gen, elsewhere>>

\* ---------------------------------------------------------------- bounds
MaxTurns == 2
MaxParts == 2
MaxDeltas == 2
MaxTools == 2
MaxFiles == 2
MaxMessages == 2
MaxEvents == 2
\* AppendEvent calls on the session whose events are loaded again
MaxAppends == 12
\* of them, the calls whose commands the server refuses
MaxRefused == 1
\* AppendEvent calls begun by the concurrent callers of one session
MaxConcurrent == 3

\* ---------------------------------------------------------------- values
NoErr == <<>>
NoCall == ""
NoText == <<>>
Nil == "nil"

Prompts == {<<"p">>, <<"q">>}
FnNames == {"f"}
ToolResults == {"r"}

TextPart(t) == [Text |-> t, FunctionCall |-> NoCall]
CallPart(f) == [Text |-> NoText, FunctionCall |-> f]
OtherPart == [Text |-> NoText, FunctionCall |-> NoCall]

PartSet == {TextPart(<<"a">>), TextPart(<<" ">>), CallPart("f"), OtherPart}

RECURSIVE SeqsUpTo(_, _)
SeqsUpTo(S, n) ==
    IF n = 0 THEN {<<>>}
    ELSE LET shorter == SeqsUpTo(S, n - 1)
         IN shorter \cup {Append(s, x) : s \in shorter, x \in S}

\* genai.Candidate: Content may be nil
Candidate(parts) == [HasContent |-> TRUE, Parts |-> parts]
NilContent == [HasContent |-> FALSE, Parts |-> <<>>]
CandidateSet == {Candidate(p) : p \in SeqsUpTo(PartSet, MaxParts)} \cup {NilContent}

\* resp.Candidates of a genai.GenerateContentResponse
CandidateLists == {<<>>} \cup {<<c>> : c \in CandidateSet}

\* ---------------------------------------------------------------- text
IsSpace(c) == c \in {" ", "\n"}

RECURSIVE TrimLeft(_)
TrimLeft(s) ==
    IF s = <<>> THEN s
    ELSE IF IsSpace(Head(s)) THEN TrimLeft(Tail(s)) ELSE s

RECURSIVE TrimRight(_)
TrimRight(s) ==
    IF s = <<>> THEN s
    ELSE IF IsSpace(s[Len(s)]) THEN TrimRight(SubSeq(s, 1, Len(s) - 1)) ELSE s

TrimSpace(s) == TrimRight(TrimLeft(s))

\* ---------------------------------------------------------------- adapter
RECURSIVE JoinParts(_)
JoinParts(parts) ==
    IF parts = <<>> THEN <<>>
    ELSE LET p == Head(parts)
         IN IF p.FunctionCall # NoCall THEN JoinParts(Tail(parts))
            ELSE IF p.Text # NoText THEN p.Text \o <<"\n">> \o JoinParts(Tail(parts))
            ELSE <<"{}", "\n">> \o JoinParts(Tail(parts))

\* LastCall keeping the first function call instead
RECURSIVE FirstCall(_)
FirstCall(parts) ==
    IF parts = <<>> THEN NoCall
    ELSE IF Head(parts).FunctionCall # NoCall THEN Head(parts).FunctionCall
    ELSE FirstCall(Tail(parts))

\* the function call left in modelResp.FunctionCall by the loop: each one
\* overwrites the one before
RECURSIVE LastCall(_)
LastCall(parts) ==
    IF parts = <<>> THEN NoCall
    ELSE IF parts[Len(parts)].FunctionCall # NoCall THEN parts[Len(parts)].FunctionCall
    ELSE LastCall(SubSeq(parts, 1, Len(parts) - 1))

Response(err, text, fc) == [Error |-> err, Text |-> text, FunctionCall |-> fc]

ModelResponseFromGeminiContent(res) ==
    IF Len(res) = 0 THEN Response(<<"no candidates found in response">>, NoText, NoCall)
    ELSE IF ~res[1].HasContent \/ Len(res[1].Parts) = 0
         THEN Response(<<"candidate has no content parts">>, NoText, NoCall)
    ELSE Response(NoErr, TrimSpace(JoinParts(res[1].Parts)), LastCall(res[1].Parts))

\* ---------------------------------------------------------------- store
Message(role, content, t) == [role |-> role, content |-> content, turn |-> t]

\* RedisClientInterface.SaveChatMessage as the chat sees it through the
\* interface: the write appends the message to the chat's list, or it fails
\* and appends nothing
SaveChatMessage(lg, msg, ok) == IF ok THEN Append(lg, msg) ELSE lg

\* ---------------------------------------------------------------- calls
\* What a call has done so far: the log it leaves, the store writes and
\* inference calls it made (in order), and the error it is about to return.
Ev(kind, role, ok) == [kind |-> kind, role |-> role, ok |-> ok]
Progress(lg, ev, err) == [log |-> lg, ev |-> ev, err |-> err]
Return(c, r) == [log |-> c.log, ev |-> c.ev, ret |-> r]
Failed(err) == Response(err, NoText, NoCall)

\* SaveUserMessage with the store's error dropped instead of returned
SaveUserMessageIgnoringFailure(lg, t, text, ok) ==
    Progress(SaveChatMessage(lg, Message("user", text, t), ok),
             <<Ev("save", "user", ok)>>, NoErr)

\* Chat.SendMessage, step 1: persist the user turn; a failure is fatal
SaveUserMessage(lg, t, text, ok) ==
    Progress(SaveChatMessage(lg, Message("user", text, t), ok),
             <<Ev("save", "user", ok)>>,
             IF ok THEN NoErr
             ELSE <<"error saving the redis SaveChatMessage", "store">>)

\* SessionSendMessage with a failed call tried a second time
SessionSendMessageRetrying(c, apiOk, wrap) ==
    Progress(c.log,
             IF apiOk THEN Append(c.ev, Ev("api", "model", TRUE))
             ELSE c.ev \o <<Ev("api", "model", FALSE), Ev("api", "model", FALSE)>>,
             IF apiOk THEN NoErr ELSE <<wrap, "api">>)

\* c.session.SendMessage: one call of the inference API, never repeated; with
\* a nil error the response is not nil
SessionSendMessage(c, apiOk, wrap) ==
    Progress(c.log, Append(c.ev, Ev("api", "model", apiOk)),
             IF apiOk THEN NoErr ELSE <<wrap, "api">>)

\* the guard under which SendMessage and SendToolResponse persist a reply
HasModelText(res) ==
    /\ Len(res) > 0
    /\ res[1].HasContent
    /\ Len(res[1].Parts) > 0
    /\ res[1].Parts[1].Text # NoText

\* the text they persist
ModelText(res) == res[1].Parts[1].Text

\* persist the model turn, best effort: a failure is logged and dropped
SaveModelReply(c, t, res, ok) ==
    IF HasModelText(res)
    THEN Progress(SaveChatMessage(c.log, Message("model", ModelText(res), t), ok),
                  Append(c.ev, Ev("save", "model", ok)), NoErr)
    ELSE c

ChatSendMessage(lg, t, prompt, userOk, apiOk, res, modelOk) ==
    LET u == SaveUserMessage(lg, t, prompt, userOk)
    IN  IF u.err # NoErr THEN Return(u, Failed(u.err))
        ELSE LET a == SessionSendMessage(u, apiOk, "error from Gemini SendMessage")
             IN  IF a.err # NoErr THEN Return(a, Failed(a.err))
                 ELSE Return(SaveModelReply(a, t, res, modelOk),
                             ModelResponseFromGeminiContent(res))

\* SaveToolMessage with the store's error returned instead of logged
SaveToolMessageFatal(lg, t, fn, resultJSON, ok) ==
    Progress(SaveChatMessage(lg, Message("tool", <<"Tool ", fn, " responded with: ", resultJSON>>, t), ok),
             <<Ev("save", "tool", ok)>>,
             IF ok THEN NoErr ELSE <<"failed to save tool response message", "store">>)

\* Chat.SendToolResponse, step 2: persist the tool turn, best effort
ToolContent(fn, resultJSON) == <<"Tool ", fn, " responded with: ", resultJSON>>

SaveToolMessage(lg, t, fn, resultJSON, ok) ==
    Progress(SaveChatMessage(lg, Message("tool", ToolContent(fn, resultJSON), t), ok),
             <<Ev("save", "tool", ok)>>, NoErr)

ChatSendToolResponse(lg, t, fn, result, jsonOk, toolOk, apiOk, res, modelOk) ==
    IF ~jsonOk
    THEN Return(Progress(lg, <<>>, NoErr),
                Failed(<<"failed to serialize tool result", "json">>))
    ELSE LET s == SaveToolMessage(lg, t, fn, result, toolOk)
             a == SessionSendMessage(s, apiOk, "error sending tool response to Gemini")
         IN  IF s.err # NoErr THEN Return(s, Failed(s.err))
             ELSE IF a.err # NoErr THEN Return(a, Failed(a.err))
             ELSE Return(SaveModelReply(a, t, res, modelOk),
                         ModelResponseFromGeminiContent(res))

\* ---------------------------------------------------------------- agent
ValidModes == {"MODE_UNSPECIFIED", "AUTO", "ANY", "NONE", "VALIDATED", ""}
\* ToolConfig.Mode of the merged generation config; "nil" is no ToolConfig
ModeInputs == {"nil", "AUTO", "", "bogus"}
\* outcome of FindUserByID: an error, no user, a user without or with context
UserLookups == {"error", "none", "empty", "context"}

Converted(value, err) == [value |-> value, err |-> err]

\* convertFunctionCallingMode with a mode it does not know taken for auto
convertFunctionCallingModeLenient(mode) ==
    CASE mode = "MODE_UNSPECIFIED" -> Converted("FunctionCallingConfigModeUnspecified", NoErr)
      [] mode = "ANY" -> Converted("FunctionCallingConfigModeAny", NoErr)
      [] mode = "NONE" -> Converted("FunctionCallingConfigModeNone", NoErr)
      [] mode = "VALIDATED" -> Converted("FunctionCallingConfigModeValidated", NoErr)
      [] OTHER -> Converted("FunctionCallingConfigModeAuto", NoErr)

\* convertFunctionCallingMode(mode): the genai.FunctionCallingConfigMode, or an error
convertFunctionCallingMode(mode) ==
    CASE mode = "MODE_UNSPECIFIED" -> Converted("FunctionCallingConfigModeUnspecified", NoErr)
      [] mode = "AUTO" -> Converted("FunctionCallingConfigModeAuto", NoErr)
      [] mode = "ANY" -> Converted("FunctionCallingConfigModeAny", NoErr)
      [] mode = "NONE" -> Converted("FunctionCallingConfigModeNone", NoErr)
      [] mode = "VALIDATED" -> Converted("FunctionCallingConfigModeValidated", NoErr)
      [] mode = "" -> Converted("FunctionCallingConfigModeAuto", NoErr)
      [] OTHER -> Converted("", <<"invalid function calling mode">>)

\* genaiconfig.SchemaConfig behind a pointer: a raw JSON-schema map, a value
\* whose type the schema is derived from, a pre-built *genai.Schema; each may
\* be Nil
SchemaConfig(json, schema, genai) ==
    [nil |-> FALSE, SchemaJSON |-> json, Schema |-> schema, SchemaGenAI |-> genai]
NoSchemaConfig == [nil |-> TRUE, SchemaJSON |-> Nil, Schema |-> Nil, SchemaGenAI |-> Nil]

\* genaiconfig.Tool
Tool(name, description, request, response) ==
    [Name |-> name, Description |-> description, RequestConfig |-> request,
     ResponseConfig |-> response]

\* buildSchemaFromType(reflect.TypeOf(v)): the schema derived from the type of v
buildSchemaFromType(v) == "schema of " \o v

\* genai.FunctionDeclaration, the fields BuildGeminiTool may set and Response
FunctionDeclaration(name, description) ==
    [Name |-> name, Description |-> description, ParametersJsonSchema |-> Nil,
     Parameters |-> Nil, ResponseJsonSchema |-> Nil, Response |-> Nil]

\* the assignments made for tool.RequestConfig
WithRequestConfig(d, c) ==
    IF c.nil THEN d
    ELSE LET d1 == IF c.SchemaJSON # Nil THEN [d EXCEPT !.ParametersJsonSchema = c.SchemaJSON]
                   ELSE d
             d2 == IF c.Schema # Nil
                   THEN [d1 EXCEPT !.Parameters = buildSchemaFromType(c.Schema)] ELSE d1
         IN  IF c.SchemaGenAI # Nil THEN [d2 EXCEPT !.Parameters = c.SchemaGenAI] ELSE d2

\* the assignments made for tool.ResponseConfig: Schema and SchemaGenAI are
\* assigned to Parameters
WithResponseConfig(d, c) ==
    IF c.nil THEN d
    ELSE LET d1 == IF c.SchemaJSON # Nil THEN [d EXCEPT !.ResponseJsonSchema = c.SchemaJSON]
                   ELSE d
             d2 == IF c.Schema # Nil
                   THEN [d1 EXCEPT !.Parameters = buildSchemaFromType(c.Schema)] ELSE d1
         IN  IF c.SchemaGenAI # Nil THEN [d2 EXCEPT !.Parameters = c.SchemaGenAI] ELSE d2

\* BuildGeminiTool(tool): a genai.Tool with one declaration; the error is always nil
BuildGeminiTool(tool) ==
    Converted([FunctionDeclarations |->
                <<WithResponseConfig(
                    WithRequestConfig(FunctionDeclaration(tool.Name, tool.Description),
                                      tool.RequestConfig),
                    tool.ResponseConfig)>>],
              NoErr)

GeminiConfigFromGenerationConfig(mode) ==
    IF mode = "nil" THEN NoErr
    ELSE IF convertFunctionCallingMode(mode).err # NoErr
         THEN <<"Unable to convert tool config calling mode to gemini",
                "invalid function calling mode">>
    ELSE NoErr

\* genaiconfig.FileConfig: Contents and Path are "" when not given
FileConfig(contents, path, mime) == [Contents |-> contents, Path |-> path, MIMEType |-> mime]

\* the local paths os.ReadFile can read, and what it reads there
Readable == {"/tmp/f"}
FileBytes(path) == "bytes of " \o path

isRemoteURL(path) == path \in {"http://h/f", "https://h/f"}

\* a genai.Part of a request: a text, inline data or a reference to a remote file
PromptPart(kind, text, mime, data, uri) ==
    [Kind |-> kind, Text |-> text, MIMEType |-> mime, Data |-> data, FileURI |-> uri]

fileConfigToPart(file) ==
    LET mimeType == IF file.MIMEType = "" THEN "application/octet-stream" ELSE file.MIMEType
    IN  IF file.Contents # ""
        THEN Converted(PromptPart("inline", NoText, mimeType, file.Contents, ""), NoErr)
        ELSE IF file.Path # ""
        THEN IF isRemoteURL(file.Path)
             THEN Converted(PromptPart("file", NoText, mimeType, "", file.Path), NoErr)
             ELSE IF file.Path \in Readable
             THEN Converted(PromptPart("inline", NoText, mimeType, FileBytes(file.Path), ""),
                            NoErr)
             ELSE Converted(Nil, <<"fileConfigToPart: failed to read local file", "os">>)
        ELSE Converted(Nil, <<"fileConfigToPart: both file.Contents and file.Path are empty">>)

\* json.Marshal of a structured payload (a map): its JSON text, or an error
\* for a map holding a value JSON cannot encode
Marshal(payload) ==
    IF payload = "chan" THEN Converted(NoText, <<"json: unsupported type">>)
    ELSE Converted(<<"{", payload, "}">>, NoErr)

\* genaiconfig.Prompt; StructuredText is Nil or a map
Prompt(text, structured, files) ==
    [Text |-> text, StructuredText |-> structured, Files |-> files]

TextPrompt(text) == Prompt(text, Nil, <<>>)

\* the parts of the files up to the first that fails
RECURSIVE FileParts(_)
FileParts(files) ==
    IF files = <<>> THEN Converted(<<>>, NoErr)
    ELSE LET first == fileConfigToPart(Head(files))
             rest == FileParts(Tail(files))
         IN  IF first.err # NoErr
             THEN Converted(<<>>, <<"failed to process file", first.err[1]>>)
             ELSE IF rest.err # NoErr THEN rest
             ELSE Converted(<<first.value>> \o rest.value, NoErr)

\* GeminiContentFromPrompt with the file parts put before the text
GeminiContentFromPromptFilesFirst(prompt) ==
    LET f == FileParts(prompt.Files)
    IN  IF prompt.Text = NoText /\ Len(prompt.Files) = 0 /\ prompt.StructuredText = Nil
        THEN Converted(<<>>, <<"prompt must contain at least text, structured text, or files">>)
        ELSE IF prompt.StructuredText # Nil /\ Marshal(prompt.StructuredText).err # NoErr
        THEN Converted(<<>>, <<"failed to marshal structured text", "json">>)
        ELSE IF f.err # NoErr THEN Converted(<<>>, f.err)
        ELSE Converted(
                <<[Role |-> "user",
                   Parts |-> f.value
                      \o (IF prompt.Text # NoText
                          THEN <<PromptPart("text", prompt.Text, "", "", "")>> ELSE <<>>)
                      \o (IF prompt.StructuredText # Nil
                          THEN <<PromptPart("text", Marshal(prompt.StructuredText).value,
                                            "", "", "")>>
                          ELSE <<>>)]>>,
                NoErr)

\* GeminiContentFromPrompt(prompt): the contents of the request, or an error
GeminiContentFromPrompt(prompt) ==
    LET f == FileParts(prompt.Files)
    IN  IF prompt.Text = NoText /\ Len(prompt.Files) = 0 /\ prompt.StructuredText = Nil
        THEN Converted(<<>>, <<"prompt must contain at least text, structured text, or files">>)
        ELSE IF prompt.StructuredText # Nil /\ Marshal(prompt.StructuredText).err # NoErr
        THEN Converted(<<>>, <<"failed to marshal structured text", "json">>)
        ELSE IF f.err # NoErr THEN Converted(<<>>, f.err)
        ELSE Converted(
                <<[Role |-> "user",
                   Parts |-> (IF prompt.Text # NoText
                              THEN <<PromptPart("text", prompt.Text, "", "", "")>> ELSE <<>>)
                      \o (IF prompt.StructuredText # Nil
                          THEN <<PromptPart("text", Marshal(prompt.StructuredText).value,
                                            "", "", "")>>
                          ELSE <<>>)
                      \o f.value]>>,
                NoErr)

\* Models.GenerateContent: one call of the inference API, never repeated
ModelsGenerateContent(c, apiOk) ==
    Progress(c.log, Append(c.ev, Ev("api", "model", apiOk)),
             IF apiOk THEN NoErr
             ELSE <<"failed to generate content using model", "api">>)

AgentGenerate(mode, user, text, apiOk, respNil, res) ==
    LET none == Progress(<<>>, <<>>, NoErr)
    IN  IF GeminiConfigFromGenerationConfig(mode) # NoErr
        THEN Return(none, Failed(<<"error converting the agent config to genai generation config",
                                   "config">>))
        ELSE IF user = "context"
        \* config.SystemInstruction is nil: appending to its Parts panics
        THEN Return(none, Failed(<<"panic: nil pointer dereference">>))
        ELSE IF GeminiContentFromPrompt(TextPrompt(text)).err # NoErr
        THEN Return(none, Failed(<<"error converting the prompt to genai content", "prompt">>))
        ELSE LET a == ModelsGenerateContent(none, apiOk)
             IN  IF a.err # NoErr THEN Return(a, Failed(a.err))
                 ELSE IF respNil THEN Return(a, Failed(<<"gemini returned empty response">>))
                 ELSE LET r == ModelResponseFromGeminiContent(res)
                      IN  IF r.Error # NoErr
                          THEN Return(a, Failed(<<"error converting gemini response to model response",
                                                  r.Error[1]>>))
                          ELSE Return(a, r)

\* ---------------------------------------------------------------- stream
\* The goroutine of SendMessageStream between two blocking points. A send on
\* the unbuffered channel out completes when the consumer receives the item.
Item(err, text, fc) == Response(err, text, fc)

NoStream ==
    [pc |-> "idle", turn |-> 0, prompt |-> NoText, acc |-> NoText, parts |-> <<>>,
     pending |-> Item(NoErr, NoText, NoCall), reads |-> 0, items |-> <<>>,
     ev |-> <<>>, upstream |-> "none", retErr |-> NoErr,
     cancelled |-> FALSE, gotAtCancel |-> 0, abandoned |-> FALSE, arrived |-> <<>>]

\* SendMessageStream itself: make the channel, start the goroutine, return
StartStream(t, prompt) ==
    [NoStream EXCEPT !.pc = "saveUser", !.turn = t, !.prompt = prompt]

\* the goroutine has been started and has not returned
Running(s) == s.pc \notin {"idle", "closed"}

\* ChannelClosed with close(out) run before the final store write
ChannelClosedBeforeSave(s) == s.pc \in {"saveModel", "closed"}

\* close(out) is deferred: the channel closes when the goroutine returns
ChannelClosed(s) == s.pc = "closed"

\* the caller of SendMessageStream has not yet seen its channel closed
InFlight(s) == s.pc # "idle" /\ ~ChannelClosed(s)

\* StreamSaveUser going on to the upstream call whatever the store answered
StreamSaveUserIgnoringFailure(s, ok) ==
    [s EXCEPT !.pc = "read", !.upstream = "open",
              !.ev = @ \o <<Ev("save", "user", ok), Ev("api", "stream", TRUE)>>]

\* goroutine step 1: persist the user turn, else emit one error item and return;
\* on success open the upstream stream
StreamSaveUser(s, ok) ==
    IF ok
    THEN [s EXCEPT !.pc = "read", !.upstream = "open",
                   !.ev = @ \o <<Ev("save", "user", TRUE), Ev("api", "stream", TRUE)>>]
    ELSE [s EXCEPT !.pc = "send",
                   !.pending = Item(<<"failed to save user message: store">>, NoText, NoCall),
                   !.ev = Append(@, Ev("save", "user", FALSE))]

\* the loop over cand.Content.Parts, run up to its next channel send
RECURSIVE NextEmit(_)
NextEmit(s) ==
    IF s.parts = <<>> THEN [s EXCEPT !.pc = "read"]
    ELSE LET p == Head(s.parts)
             rest == Tail(s.parts)
         IN  IF p.Text # NoText
             THEN [s EXCEPT !.acc = @ \o p.Text, !.parts = rest, !.pc = "send",
                            !.pending = Item(NoErr, p.Text, NoCall)]
             ELSE IF p.FunctionCall # NoCall
             THEN [s EXCEPT !.parts = rest, !.pc = "send",
                            !.pending = Item(NoErr, NoText, p.FunctionCall)]
             ELSE NextEmit([s EXCEPT !.parts = rest])

\* what the loop over the parts of one delta puts on the channel: one item per
\* text part and per function-call part, in the order of the parts
RECURSIVE PartItems(_)
PartItems(parts) ==
    IF parts = <<>> THEN <<>>
    ELSE LET p == Head(parts)
         IN  IF p.Text # NoText THEN <<Item(NoErr, p.Text, NoCall)>> \o PartItems(Tail(parts))
             ELSE IF p.FunctionCall # NoCall
             THEN <<Item(NoErr, NoText, p.FunctionCall)>> \o PartItems(Tail(parts))
             ELSE PartItems(Tail(parts))

DeltaItems(res) ==
    IF Len(res) = 0 \/ ~res[1].HasContent THEN <<>> ELSE PartItems(res[1].Parts)

RECURSIVE Reverse(_)
Reverse(seq) == IF seq = <<>> THEN <<>> ELSE Append(Reverse(Tail(seq)), Head(seq))

\* StreamDelta relaying only the first part of each delta
StreamDeltaFirstPartOnly(s, res) ==
    IF Len(res) = 0 \/ ~res[1].HasContent \/ Len(res[1].Parts) = 0
    THEN [s EXCEPT !.reads = @ + 1]
    ELSE NextEmit([s EXCEPT !.reads = @ + 1, !.parts = <<res[1].Parts[1]>>])

\* StreamDelta going through the parts of a delta from the last to the first
StreamDeltaReversed(s, res) ==
    IF Len(res) = 0 \/ ~res[1].HasContent
    THEN [s EXCEPT !.reads = @ + 1]
    ELSE NextEmit([s EXCEPT !.reads = @ + 1, !.parts = Reverse(res[1].Parts)])

\* one iteration of `for resp, err := range stream` with a response
StreamDelta(s, res) ==
    IF Len(res) = 0 \/ ~res[1].HasContent
    THEN [s EXCEPT !.reads = @ + 1]
    ELSE NextEmit([s EXCEPT !.reads = @ + 1, !.parts = res[1].Parts])

\* StreamError taking the error for the end of the stream: the accumulated
\* text is saved and no item is emitted
StreamErrorSavingPartial(s) ==
    [s EXCEPT !.upstream = "error",
              !.pc = IF s.acc # NoText THEN "saveModel" ELSE "closed"]

\* StreamError returning without putting the error on the channel
StreamErrorSilent(s) ==
    [s EXCEPT !.upstream = "error", !.pc = "closed"]

\* the iteration that yields an error: emit it as an item and return
StreamError(s) ==
    [s EXCEPT !.pc = "send", !.upstream = "error",
              !.pending = Item(<<"api">>, NoText, NoCall)]

\* StreamEnd persisting whenever the stream ends, text or not
StreamEndAlwaysSaving(s) ==
    [s EXCEPT !.upstream = "ended", !.pc = "saveModel"]

\* the range loop ends: persist the accumulated text if there is any
StreamEnd(s) ==
    [s EXCEPT !.upstream = "ended",
              !.pc = IF s.acc # NoText THEN "saveModel" ELSE "closed"]

\* StreamSent flushing the accumulated text after an error item
StreamSentFlushingOnError(s) ==
    LET got == [s EXCEPT !.items = Append(@, s.pending),
                         !.pending = Item(NoErr, NoText, NoCall)]
    IN  IF s.pending.Error # NoErr
        THEN [got EXCEPT !.pc = IF s.acc # NoText THEN "saveModel" ELSE "closed"]
        ELSE NextEmit(got)

\* the consumer receives the pending item; after an error item the goroutine returns
StreamSent(s) ==
    LET got == [s EXCEPT !.items = Append(@, s.pending),
                         !.pending = Item(NoErr, NoText, NoCall)]
    IN  IF s.pending.Error # NoErr THEN [got EXCEPT !.pc = "closed"]
        ELSE NextEmit(got)

\* step 3: one model entry with the accumulated text, its error ignored
StreamSaveModel(s, ok) ==
    [s EXCEPT !.pc = "closed", !.ev = Append(@, Ev("save", "model", ok))]

\* ---------------------------------------------------------------- construction
\* RedisClientInterface.GetChatHistory as the chat sees it through the
\* interface: the messages of the chat's list in insertion order, or an error
\* and no messages
GetChatHistory(lg, ok) ==
    IF ok
    THEN [history |-> [i \in 1..Len(lg) |-> [Role |-> lg[i].role, Content |-> lg[i].content]],
          err |-> NoErr]
    ELSE [history |-> <<>>, err |-> <<"store">>]

\* genai.Content{Role: role, Parts: []*genai.Part{{Text: msg.Content}}}
Content(role, text) == [Role |-> role, Parts |-> <<TextPart(text)>>]

\* the loop of NewChat over the history it read
HistoryContents(history) ==
    [i \in 1..Len(history) |->
        Content(IF history[i].Role = "model" THEN "model" ELSE "user", history[i].Content)]

Constructed(ev, err, built, contents) ==
    [ev |-> ev, err |-> err, built |-> built, contents |-> contents]

\* NewChat: an error of GetChatHistory is logged and the history it returned
\* (none) is used; the config conversion and Chats.Create are fatal
NewChat(lg, histOk, mode, createOk) ==
    LET h == GetChatHistory(lg, histOk)
        contents == HistoryContents(h.history)
        read == <<Ev("read", "history", histOk)>>
    IN  IF GeminiConfigFromGenerationConfig(mode) # NoErr
        THEN Constructed(read, <<"failed to create chat session config", "config">>,
                         FALSE, <<>>)
        ELSE IF ~createOk
        THEN Constructed(Append(read, Ev("api", "create", FALSE)),
                         <<"failed to create chat session", "api">>, FALSE, <<>>)
        ELSE Constructed(Append(read, Ev("api", "create", TRUE)), NoErr, TRUE, contents)

\* Agent.NewChat: persist the chat config, then construct
AgentNewChat(lg, storeOk, histOk, mode, createOk) ==
    IF ~storeOk
    THEN Constructed(<<Ev("save", "chat", FALSE)>>,
                     <<"failed to create chat in redis", "store">>, FALSE, <<>>)
    ELSE LET c == NewChat(lg, histOk, mode, createOk)
         IN  [c EXCEPT !.ev = <<Ev("save", "chat", TRUE)>> \o @]

\* Agent.GetChat: read the chat config, then construct
AgentGetChat(lg, storeOk, histOk, mode, createOk) ==
    IF ~storeOk
    THEN Constructed(<<Ev("read", "chat", FALSE)>>,
                     <<"failed to get chat from redis", "store">>, FALSE, <<>>)
    ELSE LET c == NewChat(lg, histOk, mode, createOk)
         IN  [c EXCEPT !.ev = <<Ev("read", "chat", TRUE)>> \o @]

\* ---------------------------------------------------------------- generation config
\* A pointer field is "nil" or names what it points to; MaxOutputTokens is an
\* int32 with 0 for unset; the lists are slices.
GenerationConfig(t, p, k, m, stop, schema, tools, tc) ==
    [Temperature |-> t, TopP |-> p, TopK |-> k, MaxOutputTokens |-> m,
     StopSequences |-> stop, ResponseSchemaConfig |-> schema, Tools |-> tools,
     ToolConfig |-> tc]

\* the zero value &genaiconfig.GenerationConfig{}
EmptyConfig == GenerationConfig(Nil, Nil, Nil, 0, <<>>, Nil, <<>>, Nil)

\* NewAgent: a nil default becomes {Temperature: 0.01}
NewAgentDefault == [EmptyConfig EXCEPT !.Temperature = "0.01"]

\* a default given by the caller of NewAgent with every field set
FullDefault == GenerationConfig("b", "b", "b", 2, <<"b">>, "b", <<"b">>, "b")

StoredDefaults == {NewAgentDefault, FullDefault}

\* a *GenerationConfig passed as override: nil, or a config with any of its
\* fields set
Ptr(cfg) == [nil |-> FALSE, cfg |-> cfg]
NilPtr == [nil |-> TRUE, cfg |-> EmptyConfig]

Overrides ==
    {NilPtr} \cup
    {Ptr(c) : c \in [Temperature : {Nil, "o"}, TopP : {Nil, "o"}, TopK : {Nil, "o"},
                     MaxOutputTokens : {0, 1}, StopSequences : {<<>>, <<"o">>},
                     ResponseSchemaConfig : {Nil, "o"}, Tools : {<<>>, <<"o">>},
                     ToolConfig : {Nil, "o"}]}

\* the callers of Agent.Generate, each named by the cell its copy is allocated in
GenCallers == {"g1", "g2"}
Stored == "stored"

\* mergeGenerationConfig with the override taken whole
mergeGenerationConfigWholeStruct(hp, base, override) ==
    IF override.nil THEN hp ELSE [hp EXCEPT ![base] = override.cfg]

\* mergeGenerationConfig(base, override): writes the fields of *base
mergeGenerationConfig(hp, base, override) ==
    IF override.nil THEN hp
    ELSE LET b == hp[base]
             o == override.cfg
         IN  [hp EXCEPT ![base] =
                GenerationConfig(
                    IF o.Temperature # Nil THEN o.Temperature ELSE b.Temperature,
                    IF o.TopP # Nil THEN o.TopP ELSE b.TopP,
                    IF o.TopK # Nil THEN o.TopK ELSE b.TopK,
                    IF o.MaxOutputTokens # 0 THEN o.MaxOutputTokens ELSE b.MaxOutputTokens,
                    IF Len(o.StopSequences) > 0 THEN o.StopSequences ELSE b.StopSequences,
                    IF o.ResponseSchemaConfig # Nil THEN o.ResponseSchemaConfig
                    ELSE b.ResponseSchemaConfig,
                    IF Len(o.Tools) > 0 THEN o.Tools ELSE b.Tools,
                    IF o.ToolConfig # Nil THEN o.ToolConfig ELSE b.ToolConfig)]

\* cloneGenerationConfig handing back src itself
cloneGenerationConfigAliasing(hp, src, fresh) == [heap |-> hp, ptr |-> src]

\* cloneGenerationConfig(src): cpy := *src; return &cpy, with cpy in a fresh cell
cloneGenerationConfig(hp, src, fresh) ==
    [heap |-> [hp EXCEPT ![fresh] = IF src = Nil THEN EmptyConfig ELSE hp[src]],
     ptr |-> fresh]

\* ---------------------------------------------------------------- agent tools
\* A tool is known by its name here; ToolNames are the names callers pass.
ToolNames == {"t1", "t2"}

HasTool(tools, name) == \E i \in 1..Len(tools) : tools[i] = name

\* index of the first tool called name: the one the loop of RemoveTool reaches
FirstTool(tools, name) ==
    CHOOSE i \in 1..Len(tools) : tools[i] = name /\ \A j \in 1..(i - 1) : tools[j] # name

\* append(tools[:i], tools[i+1:]...)
WithoutIndex(tools, i) ==
    [j \in 1..(Len(tools) - 1) |-> IF j < i THEN tools[j] ELSE tools[j + 1]]

\* the outcome of a tool call: the agent's config after it, the config handed
\* to CreateAgent (Nil when the store was not called) and the error returned
ToolCall(config, ev, saved, err) == [config |-> config, ev |-> ev, saved |-> saved, err |-> err]

\* Agent.AddTool: append to the default config's list, then CreateAgent(a.config)
AgentAddTool(config, tool, storeOk) ==
    LET c == [config EXCEPT !.Tools = Append(@, tool)]
    IN  ToolCall(c, <<Ev("save", "agent", storeOk)>>, Ptr(c),
                 IF storeOk THEN NoErr
                 ELSE <<"failed to create or update agent in redis", "store">>)

\* Agent.RemoveTool that persists and succeeds whether or not the name is known
AgentRemoveToolIgnoringUnknown(config, toolName, storeOk) ==
    LET c == IF HasTool(config.Tools, toolName)
             THEN [config EXCEPT !.Tools = WithoutIndex(@, FirstTool(@, toolName))]
             ELSE config
    IN  ToolCall(c, <<Ev("save", "agent", storeOk)>>, Ptr(c),
                 IF storeOk THEN NoErr
                 ELSE <<"failed to create or update agent in redis", "store">>)

\* Agent.RemoveTool: the first tool of that name is cut out and the config is
\* persisted; with no such tool, ErrToolNotFound and nothing else
AgentRemoveTool(config, toolName, storeOk) ==
    IF HasTool(config.Tools, toolName)
    THEN LET c == [config EXCEPT !.Tools = WithoutIndex(@, FirstTool(@, toolName))]
         IN  ToolCall(c, <<Ev("save", "agent", storeOk)>>, Ptr(c),
                      IF storeOk THEN NoErr
                      ELSE <<"failed to create or update agent in redis", "store">>)
    ELSE ToolCall(config, <<>>, NilPtr, <<"tool not found">>)

\* BuildGeminiTools over tools known by name: one genai.Tool per tool, each
\* with one function declaration
WireTools(tools) == [i \in 1..Len(tools) |-> [FunctionDeclarations |-> <<tools[i]>>]]

\* the genai.GenerateContentConfig built from a generation config: the scalar
\* fields copied, the tools converted
WireConfig(cfg) == [cfg EXCEPT !.Tools = WireTools(@)]

\* Agent.NewChat: chatConfig.GenerationConfig, when nil, becomes the agent's
\* DefaultGenerationConfig
ResolveGenerationConfig(hp, own) == IF own.nil THEN hp[Stored] ELSE own.cfg

NoSession == [built |-> FALSE, inherited |-> FALSE, default |-> EmptyConfig,
              config |-> WireConfig(EmptyConfig)]

\* the session NewChat builds: Chats.Create is handed the converted config
\* and the genai.Chat keeps it
BuildSession(hp, own) ==
    [built |-> TRUE, inherited |-> own.nil, default |-> hp[Stored],
     config |-> WireConfig(ResolveGenerationConfig(hp, own))]

\* a session that converts the agent's default again on every send
SessionConfigResolvedPerSend(hp, s) ==
    IF s.inherited THEN WireConfig(hp[Stored]) ELSE s.config

\* the config c.session.SendMessage sends with: the one the session was created with
SessionConfig(hp, s) == s.config

\* ---------------------------------------------------------------- persistence gateway
\* RedisClient and the redis server behind it. The server holds string keys
\* (a missing key is "") and one set of ids per set key; it outlives the
\* clients built over it. A command sent to the server may fail.
EntityIds == {"a1", "a2"}
EntityData == {"x", "y"}
SetKey == "agents"

generateKey(entityType, id) == entityType \o ":" \o id

RedisKeys == {generateKey("agent", id) : id \in EntityIds}

\* json.Marshal(data)
MarshalJSON(data) == "{" \o data \o "}"

EmptyServer == [kv |-> [k \in RedisKeys |-> ""], members |-> {}]

\* what a helper did: the server after it, what it returned, the number of
\* commands it sent to the server
Did(server, bytes, ids, err, sent) ==
    [server |-> server, bytes |-> bytes, ids |-> ids, err |-> err, sent |-> sent]

ServerError == <<"redis: connection refused">>
RedisNil == <<"redis: nil">>

setJSON(isDisabled, server, key, data, ok) ==
    IF isDisabled THEN Did(server, "", {}, NoErr, 0)
    ELSE IF ok THEN Did([server EXCEPT !.kv[key] = MarshalJSON(data)], "", {}, NoErr, 1)
    ELSE Did(server, "", {}, ServerError, 1)

\* r.client.Get(ctx, key).Bytes(): sent whatever isDisabled is; a missing key
\* is the error redis.Nil
getJSONBytes(isDisabled, server, key, ok) ==
    IF ~ok THEN Did(server, "", {}, ServerError, 1)
    ELSE IF server.kv[key] = "" THEN Did(server, "", {}, RedisNil, 1)
    ELSE Did(server, server.kv[key], {}, NoErr, 1)

deleteKeys(isDisabled, server, keys, ok) ==
    IF isDisabled THEN Did(server, "", {}, NoErr, 0)
    ELSE IF ok
    THEN Did([server EXCEPT !.kv = [k \in RedisKeys |-> IF k \in keys THEN "" ELSE @[k]]],
             "", {}, NoErr, 1)
    ELSE Did(server, "", {}, ServerError, 1)

saveToSet(isDisabled, server, id, ok) ==
    IF isDisabled THEN Did(server, "", {}, NoErr, 0)
    ELSE IF ok THEN Did([server EXCEPT !.members = @ \cup {id}], "", {}, NoErr, 1)
    ELSE Did(server, "", {}, ServerError, 1)

removeFromSet(isDisabled, server, id, ok) ==
    IF isDisabled THEN Did(server, "", {}, NoErr, 0)
    ELSE IF ok THEN Did([server EXCEPT !.members = @ \ {id}], "", {}, NoErr, 1)
    ELSE Did(server, "", {}, ServerError, 1)

\* r.client.SMembers(ctx, setKey).Result(): sent whatever isDisabled is
getSetByKey(isDisabled, server, ok) ==
    IF ~ok THEN Did(server, "", {}, ServerError, 1)
    ELSE Did(server, "", server.members, NoErr, 1)

\* RedisClient.SaveChatMessage: a placeholder that returns nil
RedisClientSaveChatMessage(server, chatID, message) == Did(server, "", {}, NoErr, 0)

\* RedisClient.GetChatHistory: a placeholder that returns nil, nil
RedisClientGetChatHistory(server, chatID) == [history |-> <<>>, err |-> NoErr]

\* ---------------------------------------------------------------- client
\* The Genaiclient as a factory of agents, and the identity of the chats its
\* agents open. A config or a handle is nil or carries the fields that matter.
AgentIds == {"a1", "a2"}
UserIds == {"u1"}

\* g.defaultModel, and the DefaultModel of an agent config ("" when unset)
ClientDefaultModel == "client-model"
AgentModels == {"", "agent-model"}
PromptModels == {"", "prompt-model"}

AgentConfig(id, model) == [nil |-> FALSE, ID |-> id, DefaultModel |-> model]
NoAgentConfig == [nil |-> TRUE, ID |-> "", DefaultModel |-> ""]

\* agent.NewAgent(config, genaiClient, redisClient, defaultModel)
NewAgent(config, defaultModel) ==
    [nil |-> FALSE, ID |-> config.ID, defaultModel |-> defaultModel]

NoAgent == [nil |-> TRUE, ID |-> "", defaultModel |-> ""]

Factory(agents, a, err) == [agents |-> agents, agent |-> a, err |-> err]

\* Genaiclient.NewAgent: an unset DefaultModel becomes the client's, the
\* config is persisted, and the agent is built with the config's DefaultModel
GenaiclientNewAgent(agents, agentConfig, storeOk) ==
    LET config == IF agentConfig.DefaultModel = ""
                  THEN [agentConfig EXCEPT !.DefaultModel = ClientDefaultModel]
                  ELSE agentConfig
    IN  IF ~storeOk
        THEN Factory(agents, NoAgent,
                     <<"failed to create agent configuration in redis", "store">>)
        ELSE Factory([agents EXCEPT ![config.ID] = config],
                     NewAgent(config, config.DefaultModel), NoErr)

\* Genaiclient.GetAgent: the config is read back, and the agent is built with
\* the client's default model
GenaiclientGetAgent(agents, agentID, storeOk) ==
    IF ~storeOk \/ agents[agentID].nil
    THEN Factory(agents, NoAgent,
                 <<"failed to retrieve agent configuration from redis", "store">>)
    ELSE Factory(agents, NewAgent(agents[agentID], ClientDefaultModel), NoErr)

\* Agent.Generate: the model name handed to Models.GenerateContent
GenerateModel(a, promptModel) == IF promptModel # "" THEN promptModel ELSE a.defaultModel

ChatConfig(id, agentID, userID) ==
    [nil |-> FALSE, ID |-> id, AgentID |-> agentID, UserID |-> userID]
NoChatConfig == [nil |-> TRUE, ID |-> "", AgentID |-> "", UserID |-> ""]

\* the identity NewChat gives the Chat it returns
ChatOf(config) ==
    [nil |-> FALSE, id |-> config.ID, userID |-> config.UserID, agentID |-> config.AgentID]
NoChat == [nil |-> TRUE, id |-> "", userID |-> "", agentID |-> ""]

\* Agent.NewChat: chatConfig.AgentID = a.config.ID
StampAgentID(a, chatConfig) == [chatConfig EXCEPT !.AgentID = a.ID]

\* ---------------------------------------------------------------- session service
\* RedisSessionService over a Redis server. A key is the sequence of the
\* segments its text has between colons; the server holds, under each key that
\* exists, a hash or a list and the key's time to live. The values of a hash
\* are texts: <<s>> for the string s, <<"rfc3339", t>> for the time t.
Apps == {"app"}
Users == {"u1", "u2"}
SessionIds == {"s1", "s2"}

\* session.KeyPrefixTemp, and the state keys that start with it
KeyPrefixTemp == "temp:"
StateKeys == {"k", "temp:k"}
HasPrefix(k, prefix) == prefix = KeyPrefixTemp /\ k = "temp:k"

\* LRange(ctx, eventsKey, -10, -1): the number of events Get loads
LastEvents == 10

sessionKey(appName, userID, sessionID) == <<"sess", appName, userID, sessionID>>
eventsKey(appName, userID, sessionID) == Append(sessionKey(appName, userID, sessionID), "events")
stateKey(appName, userID, sessionID) == Append(sessionKey(appName, userID, sessionID), "state")
userStateKey(app, user) == <<"sess", app, user, "state">>
appStateKey(app) == <<"sess", app, "state">>

EmptyMap == [k \in {} |-> ""]

\* a map with the entries of over laid over those of under
Overlay(under, over) ==
    [k \in DOMAIN under \cup DOMAIN over |-> IF k \in DOMAIN over THEN over[k] ELSE under[k]]

\* m[k] of a Go map of strings: the empty string for a key it lacks
Lookup(m, k) == IF k \in DOMAIN m THEN m[k] ELSE <<>>
StringOf(text) == IF text = <<>> THEN "" ELSE text[1]

\* the Redis commands the service sends, as the server executes them
RedisValue(hash, list, ttl) == [hash |-> hash, list |-> list, ttl |-> ttl]
NoValue == RedisValue(EmptyMap, <<>>, 0)
ValueAt(db, key) == IF key \in DOMAIN db THEN db[key] ELSE NoValue
Put(db, key, value) == [k \in DOMAIN db \cup {key} |-> IF k = key THEN value ELSE db[k]]

HSet(db, key, fields) ==
    Put(db, key, [ValueAt(db, key) EXCEPT !.hash = Overlay(@, fields)])
RPush(db, key, item) ==
    Put(db, key, [ValueAt(db, key) EXCEPT !.list = Append(@, item)])
Expire(db, key, ttl) ==
    IF key \in DOMAIN db THEN [db EXCEPT ![key].ttl = ttl] ELSE db
Del(db, key) == [k \in DOMAIN db \ {key} |-> db[k]]
Exists(db, key) == key \in DOMAIN db
HGetAll(db, key) == ValueAt(db, key).hash

\* LRange(key, 0, n - 1): the first n items of the list
LRangeFirst(db, key, n) ==
    LET list == ValueAt(db, key).list
    IN  IF Len(list) <= n THEN list ELSE SubSeq(list, 1, n)

\* LRange(key, -n, -1): the last n items of the list, in list order
LRangeLast(db, key, n) ==
    LET list == ValueAt(db, key).list
    IN  IF Len(list) <= n THEN list ELSE SubSeq(list, Len(list) - n + 1, Len(list))

\* Keys("sess:<app>:<user>:*"): every key whose text starts with the prefix
\* and its colon, the keys of event lists and state hashes among them
Keys(db, app, user) ==
    {k \in DOMAIN db : Len(k) > 3 /\ SubSeq(k, 1, 3) = <<"sess", app, user>>}

\* time.Format(time.RFC3339Nano) and time.Parse: a text that is no time
\* parses to the zero time
FormatTime(t) == <<"rfc3339", t>>
ParseTime(text) == IF Len(text) = 2 /\ text[1] = "rfc3339" THEN text[2] ELSE "zero"

\* json.Marshal(event) and json.Unmarshal into a session.Event
MarshalEvent(event) == <<"json", event>>
Unmarshals(raw) == Len(raw) = 2 /\ raw[1] = "json"
UnmarshalEvent(raw) == raw[2]

Event(id, partial, timestamp, delta) ==
    [ID |-> id, Partial |-> partial, Timestamp |-> timestamp, StateDelta |-> delta]

\* the IDs of the events given, in the order of the calls
EventIds ==
    <<"e1", "e2", "e3", "e4", "e5", "e6", "e7", "e8", "e9", "e10", "e11", "e12", "e13", "e14">>

\* redisSession; nil stands for a session.Session of another type, or none
RedisSession(id, appName, userID, events, state, updatedAt) ==
    [nil |-> FALSE, id |-> id, appName |-> appName, userID |-> userID, events |-> events,
     state |-> state, updatedAt |-> updatedAt]
NilSession ==
    [nil |-> TRUE, id |-> "", appName |-> "", userID |-> "", events |-> <<>>,
     state |-> EmptyMap, updatedAt |-> "zero"]

Served(db, session, err) == [db |-> db, session |-> session, err |-> err]

\* an AppendEvent call of a concurrent caller: where it is, its event, whether
\* the server answers it
NoAppend == [pc |-> "idle", event |-> Event("", FALSE, "zero", EmptyMap), up |-> TRUE]
RedisDown == <<"redis: connection refused">>

\* rsess.mu.Lock() with the lock of session object s held: the caller waits
NeverWaitsForLock(s, c) == FALSE
MustWaitForLock(s, c) == s.mu # 0

\* RedisSessionService.Create; up says whether the server answers this call
RedisSessionServiceCreate(db, ttl, appName, userID, sessionID, now, up) ==
    LET key == sessionKey(appName, userID, sessionID)
        meta == [f \in {"id", "appName", "userID", "updatedAt"} |->
                    CASE f = "id" -> <<sessionID>>
                      [] f = "appName" -> <<appName>>
                      [] f = "userID" -> <<userID>>
                      [] OTHER -> FormatTime(now)]
    IN  IF appName = "" \/ userID = "" \/ sessionID = ""
        THEN Served(db, NilSession, <<"app_name, user_id, and session_id are required">>)
        ELSE IF ~up THEN Served(db, NilSession, RedisDown)
        ELSE Served(IF ttl > 0 THEN Expire(HSet(db, key, meta), key, ttl)
                    ELSE HSet(db, key, meta),
                    RedisSession(sessionID, appName, userID, <<>>, EmptyMap, now), NoErr)

\* RedisSessionService.Get: a session the server does not hold is created;
\* one it holds is loaded with the state of the app, of the user and of the
\* session laid over each other and the last events of its list
RedisSessionServiceGet(db, ttl, appName, userID, sessionID, now, up) ==
    LET key == sessionKey(appName, userID, sessionID)
        meta == HGetAll(db, key)
        mergedState == Overlay(Overlay(HGetAll(db, appStateKey(appName)),
                                       HGetAll(db, userStateKey(appName, userID))),
                               HGetAll(db, stateKey(appName, userID, sessionID)))
        rawEvents == LRangeLast(db, eventsKey(appName, userID, sessionID), LastEvents)
        decoded == SelectSeq(rawEvents, Unmarshals)
        eventsList == [i \in 1..Len(decoded) |-> UnmarshalEvent(decoded[i])]
    IN  IF ~up THEN Served(db, NilSession, RedisDown)
        ELSE IF ~Exists(db, key)
        THEN RedisSessionServiceCreate(db, ttl, appName, userID, sessionID, now, up)
        ELSE Served(db,
                    RedisSession(StringOf(Lookup(meta, "id")),
                                 StringOf(Lookup(meta, "appName")),
                                 StringOf(Lookup(meta, "userID")),
                                 eventsList, mergedState,
                                 ParseTime(Lookup(meta, "updatedAt"))),
                    NoErr)

\* AppendEvent, under the session's lock: the state delta without its
\* temporary keys, as applied to the session and as sent to the server
StateDelta(event) ==
    [k \in {j \in DOMAIN event.StateDelta : ~HasPrefix(j, KeyPrefixTemp)} |->
        event.StateDelta[k]]

MergeState(rsess, event) == [rsess EXCEPT !.state = Overlay(@, StateDelta(event))]

\* the three hashes are each sent the whole delta
PersistState(db, rsess, event, up) ==
    IF DOMAIN StateDelta(event) = {} \/ ~up THEN db
    ELSE HSet(HSet(HSet(db, stateKey(rsess.appName, rsess.userID, rsess.id),
                        StateDelta(event)),
                   userStateKey(rsess.appName, rsess.userID), StateDelta(event)),
              appStateKey(rsess.appName), StateDelta(event))

PushEvent(db, rsess, event, up) ==
    IF up THEN RPush(db, eventsKey(rsess.appName, rsess.userID, rsess.id),
                     MarshalEvent(event))
    ELSE db

RecordEvent(rsess, event) ==
    [rsess EXCEPT !.events = Append(@, event), !.updatedAt = event.Timestamp]

UpdateMeta(db, ttl, rsess, up) ==
    LET key == sessionKey(rsess.appName, rsess.userID, rsess.id)
        written == HSet(db, key, [f \in {"updatedAt"} |-> FormatTime(rsess.updatedAt)])
    IN  IF ~up THEN db
        ELSE IF ttl > 0 THEN Expire(written, key, ttl) ELSE written

\* AppendEvent that applies a partial event like any other
RedisSessionServiceAppendEventAlsoPartial(db, ttl, rsess, event, up) ==
    IF rsess.nil THEN Served(db, rsess, <<"invalid session type">>)
    ELSE LET merged == MergeState(rsess, event)
             stated == PersistState(db, merged, event, up)
             pushed == PushEvent(stated, merged, event, up)
             recorded == RecordEvent(merged, event)
         IN  Served(UpdateMeta(pushed, ttl, recorded, up), recorded, NoErr)

\* RedisSessionService.AppendEvent: nothing for a partial event; the result
\* of no command it sends is looked at, and it returns nil
RedisSessionServiceAppendEvent(db, ttl, rsess, event, up) ==
    IF rsess.nil THEN Served(db, rsess, <<"invalid session type">>)
    ELSE IF event.Partial THEN Served(db, rsess, NoErr)
    ELSE LET merged == MergeState(rsess, event)
             stated == PersistState(db, merged, event, up)
             pushed == PushEvent(stated, merged, event, up)
             recorded == RecordEvent(merged, event)
         IN  Served(UpdateMeta(pushed, ttl, recorded, up), recorded, NoErr)

\* RedisSessionService.Delete: the three keys of the session, never an error
RedisSessionServiceDelete(db, appName, userID, sessionID, up) ==
    IF ~up THEN db
    ELSE Del(Del(Del(db, sessionKey(appName, userID, sessionID)),
                 eventsKey(appName, userID, sessionID)),
             stateKey(appName, userID, sessionID))

\* the loop of List over the keys found, taken in some order: Get for the
\* fourth segment of each key; a failed Get is skipped
RECURSIVE ListLoop(_, _, _, _, _, _, _)
ListLoop(db, ttl, appName, userID, keys, now, sessions) ==
    IF keys = {} THEN [db |-> db, sessions |-> sessions]
    ELSE LET k == CHOOSE key \in keys : TRUE
             r == RedisSessionServiceGet(db, ttl, appName, userID, k[4], now, TRUE)
         IN  ListLoop(r.db, ttl, appName, userID, keys \ {k}, now,
                      IF r.err = NoErr THEN Append(sessions, r.session) ELSE sessions)

\* RedisSessionService.List: an error of Keys is dropped and no key is found.
\* The sessions returned are the same, up to their order, in whatever order
\* the server lists the keys.
RedisSessionServiceList(db, ttl, appName, userID, now, up) ==
    ListLoop(db, ttl, appName, userID, IF up THEN Keys(db, appName, userID) ELSE {}, now,
             <<>>)

\* ---------------------------------------------------------------- concurrent callers
Callers == {1, 2}

NoCallInFlight ==
    [pc |-> "idle", prompt |-> NoText, res |-> <<>>, ev |-> <<>>, ret |-> Failed(NoErr)]

\* MustWait with a lock held from the first store write of a call to its return
MustWaitForOtherCall(cs, c) ==
    \E d \in Callers \ {c} : cs[d].pc \in {"saveUser", "api", "saveModel"}

\* Chat holds no lock and SendMessage takes none: a call never waits for another
MustWait(cs, c) == FALSE

Returned(cl, ev, r) == [cl EXCEPT !.pc = "returned", !.ev = ev, !.ret = r, !.res = <<>>]

\* ---------------------------------------------------------------- state machine
NoCallYet ==
    [op |-> "none", turn |-> 0, prompt |-> NoText, res |-> <<>>, ev |-> <<>>,
     ret |-> Failed(NoErr), before |-> 0, after |-> 0,
     prev |-> [op |-> "none", ret |-> Failed(NoErr)]]

NoChatBuilt ==
    [op |-> "none", ev |-> <<>>, err |-> NoErr, built |-> FALSE, contents |-> <<>>]

NoGenerate == [pc |-> "idle", base |-> Nil, before |-> EmptyConfig, override |-> NilPtr]

NoToolCall == [op |-> "none", name |-> "", before |-> <<>>, ev |-> <<>>, saved |-> NilPtr,
               err |-> NoErr]

NotSent == [sent |-> FALSE, config |-> WireConfig(EmptyConfig), default |-> EmptyConfig]

\* no tool call made, no session built from the agent, nothing sent on one
NoAgentCalls == [last |-> NoToolCall, session |-> NoSession, used |-> NotSent]

NoConversion == [op |-> "none"]

ChatIds == {"c1", "c2"}

NoClientCall ==
    [op |-> "none", agent |-> "", via |-> "", promptModel |-> "", model |-> "",
     reached |-> FALSE, session |-> NoChat, err |-> NoErr]

\* a client that has made no agent yet, over a store with no config
NoClient ==
    [agents |-> [a \in AgentIds |-> NoAgentConfig],
     chats |-> [c \in ChatIds |-> NoChatConfig],
     made |-> [a \in AgentIds |-> NoAgent],
     got |-> [a \in AgentIds |-> NoAgent],
     last |-> NoClientCall]

NoGatewayOp == [op |-> "none", bytes |-> "", ids |-> {}, err |-> NoErr, sent |-> 0]

EmptyDB == [k \in {} |-> NoValue]
NoEvent == Event("", FALSE, "zero", EmptyMap)

NoServiceCall ==
    [op |-> "none", user |-> "", id |-> "", event |-> NoEvent, up |-> TRUE,
     before |-> [db |-> EmptyDB, session |-> NilSession], session |-> NilSession,
     sessions |-> <<>>, err |-> NoErr]

\* no service built yet, over a server with no key; held is the session object
\* the caller of each user holds, wrote the state keys AppendEvent was given
\* for sessions of the user and did not skip; mu is the caller that holds the
\* lock of the session object (0: none), calls the AppendEvent calls in flight
\* on it, given the events and answers of the calls that went past the check
\* for partial events, in the order the calls began
NoService ==
    [made |-> FALSE, ttl |-> 0, db |-> EmptyDB, held |-> [u \in Users |-> NilSession],
     wrote |-> [u \in Users |-> {}], appends |-> 0, last |-> NoServiceCall,
     mu |-> 0, calls |-> [c \in Callers |-> NoAppend], given |-> <<>>]

NoHistoryRead == [chat |-> "", history |-> <<>>, err |-> NoErr]

\* no client built yet over an empty server; appended lists, per chat, the
\* messages SaveChatMessage was given and accepted
NoGateway ==
    [made |-> "none", isDisabled |-> FALSE, server |-> EmptyServer, last |-> NoGatewayOp,
     appended |-> [c \in ChatIds |-> <<>>], read |-> NoHistoryRead]

\* after construction, with default the agent's DefaultGenerationConfig
InitWith(default) ==
    /\ log = <<>>
    /\ turn = 0
    /\ ops = <<>>
    /\ last = NoCallYet
    /\ st = NoStream
    /\ overlap = FALSE
    /\ calls = [c \in Callers |-> NoCallInFlight]
    /\ chat = NoChatBuilt
    /\ heap = [a \in GenCallers \cup {Stored} |-> IF a = Stored THEN default ELSE EmptyConfig]
    /\ gen = [g \in GenCallers |-> NoGenerate]
    /\ agent = NoAgentCalls
    /\ conv = NoConversion
    /\ redis = NoGateway
    /\ live = <<>>
    /\ client = NoClient
    /\ sess = NoService

Init == InitWith(NewAgentDefault)

Called(op, prompt, res, r) ==
    [op |-> op, turn |-> turn + 1, prompt |-> prompt, res |-> res, ev |-> r.ev,
     ret |-> r.ret, before |-> Len(log), after |-> Len(r.log),
     prev |-> [op |-> last.op, ret |-> last.ret]]

\* Inputs of the calls: the caller's arguments and the outcomes of the store
\* writes and of the inference call. An outcome the call never comes to use is
\* fixed to one value, so that each behaviour of a call is listed once.
SendInputs ==
    {i \in [prompt : Prompts, userOk : BOOLEAN, apiOk : BOOLEAN,
            res : CandidateLists, modelOk : BOOLEAN] :
        /\ ~i.userOk => ~i.apiOk
        /\ ~i.apiOk => i.res = <<>>
        /\ ~HasModelText(i.res) => i.modelOk}

ToolInputs ==
    {i \in [fn : FnNames, result : ToolResults, jsonOk : BOOLEAN, toolOk : BOOLEAN,
            apiOk : BOOLEAN, res : CandidateLists, modelOk : BOOLEAN] :
        /\ ~i.jsonOk => ~i.toolOk /\ ~i.apiOk
        /\ ~i.apiOk => i.res = <<>>
        /\ ~HasModelText(i.res) => i.modelOk}

GenerateInputs ==
    {i \in [mode : ModeInputs, user : UserLookups, text : Prompts \cup {NoText},
            apiOk : BOOLEAN, respNil : BOOLEAN, res : CandidateLists] :
        /\ i.mode = "bogus" => i.user = "none"
        /\ (i.mode = "bogus" \/ i.user = "context") => i.text = NoText
        /\ (i.mode = "bogus" \/ i.user = "context" \/ i.text = NoText) => ~i.apiOk
        /\ ~i.apiOk => i.respNil
        /\ i.respNil => i.res = <<>>}

\* The record of a stream is kept until the next call after its channel closed,
\* the record of a synchronous call until the next stream starts.
StreamRecord == IF Running(st) THEN st ELSE NoStream

\* Chat.SendMessage(ctx, prompt) with its inputs drawn from inputs
SendMessageFrom(inputs) ==
    /\ turn < MaxTurns
    /\ \E i \in inputs :
        LET r == ChatSendMessage(log, turn + 1, i.prompt, i.userOk, i.apiOk, i.res,
                                 i.modelOk)
        IN  /\ log' = r.log
            /\ last' = Called("SendMessage", i.prompt, i.res, r)
    /\ turn' = turn + 1
    /\ ops' = Append(ops, "SendMessage")
    /\ overlap' = (overlap \/ InFlight(st))
    /\ st' = StreamRecord
    /\ chat' = NoChatBuilt

DoSendMessage == SendMessageFrom(SendInputs) /\ UNCHANGED <<calls, heap, gen, elsewhere>>

\* Chat.SendToolResponse(ctx, fn, result) with its inputs drawn from inputs
SendToolResponseFrom(inputs) ==
    /\ turn < MaxTurns
    /\ \E i \in inputs :
        LET r == ChatSendToolResponse(log, turn + 1, i.fn, i.result, i.jsonOk, i.toolOk,
                                      i.apiOk, i.res, i.modelOk)
        IN  /\ log' = r.log
            /\ last' = Called("SendToolResponse", ToolContent(i.fn, i.result), i.res, r)
    /\ turn' = turn + 1
    /\ ops' = Append(ops, "SendToolResponse")
    /\ overlap' = (overlap \/ InFlight(st))
    /\ st' = StreamRecord
    /\ chat' = NoChatBuilt

DoSendToolResponse ==
    SendToolResponseFrom(ToolInputs) /\ UNCHANGED <<calls, heap, gen, elsewhere>>

\* the caller waits for a stream's channel to close before its next chat call
SendMessage == ~InFlight(st) /\ DoSendMessage
SendToolResponse == ~InFlight(st) /\ DoSendToolResponse

\* the caller issues its next chat call as soon as SendMessageStream has returned
SendMessageEarly == InFlight(st) /\ DoSendMessage
SendToolResponseEarly == InFlight(st) /\ DoSendToolResponse

\* Agent.Generate(ctx, userID, prompt, overrideConfig...) with inputs i
GenerateWith(i) ==
    /\ turn < MaxTurns
    /\ ~Running(st)
    /\ LET r == AgentGenerate(i.mode, i.user, i.text, i.apiOk, i.respNil, i.res)
       IN  last' = [Called("Generate", i.text, i.res, r) EXCEPT !.after = Len(log)]
    /\ turn' = turn + 1
    /\ ops' = Append(ops, "Generate")
    /\ st' = StreamRecord
    /\ UNCHANGED <<log, overlap, calls, chat, heap, gen, agent, redis, backstage>>

Generate == \E i \in GenerateInputs : GenerateWith(i) /\ UNCHANGED <<conv, client>>

\* Chat.SendMessageStream(ctx, prompt): returns (out, nil) at once
SendMessageStream ==
    /\ turn < MaxTurns
    /\ ~Running(st)
    /\ \E prompt \in Prompts : st' = StartStream(turn + 1, prompt)
    /\ turn' = turn + 1
    /\ ops' = Append(ops, "SendMessageStream")
    /\ last' = NoCallYet
    /\ UNCHANGED <<log, overlap>>
    /\ UNCHANGED outsideChat

StreamSaveUserStep ==
    /\ st.pc = "saveUser"
    /\ \E ok \in BOOLEAN :
        /\ st' = StreamSaveUser(st, ok)
        /\ log' = SaveChatMessage(log, Message("user", st.prompt, st.turn), ok)
    /\ UNCHANGED <<turn, ops, last, overlap>>
    /\ UNCHANGED outsideChat

\* The next value of the upstream iterator: a delta, an error or the end. Once
\* ctx is cancelled the iterator yields what it had buffered and then ctx's
\* error, never a regular end. arrived lists what the deltas read so far hold.
StreamReadStep ==
    /\ st.pc = "read"
    /\ \/ \E res \in CandidateLists :
            /\ st.reads < MaxDeltas
            /\ st' = [StreamDelta(st, res) EXCEPT !.arrived = @ \o DeltaItems(res)]
       \/ st' = StreamError(st)
       \/ ~st.cancelled /\ st' = StreamEnd(st)
    /\ UNCHANGED <<log, turn, ops, last, overlap>>
    /\ UNCHANGED outsideChat

\* the consumer receives from out, which completes the goroutine's send
StreamReceiveStep ==
    /\ st.pc = "send"
    /\ ~st.abandoned
    /\ st' = StreamSent(st)
    /\ UNCHANGED <<log, turn, ops, last, overlap>>
    /\ UNCHANGED outsideChat

StreamSaveModelStep ==
    /\ st.pc = "saveModel"
    /\ \E ok \in BOOLEAN :
        /\ st' = StreamSaveModel(st, ok)
        /\ log' = SaveChatMessage(log, Message("model", st.acc, st.turn), ok)
    /\ UNCHANGED <<turn, ops, last, overlap>>
    /\ UNCHANGED outsideChat

StreamStep ==
    \/ StreamSaveUserStep
    \/ StreamReadStep
    \/ StreamReceiveStep
    \/ StreamSaveModelStep

\* the caller cancels ctx while the upstream stream is open
Cancel ==
    /\ st.pc \in {"read", "send"}
    /\ st.upstream = "open"
    /\ ~st.cancelled
    /\ st' = [st EXCEPT !.cancelled = TRUE,
                        !.gotAtCancel = Len(SelectSeq(st.items, LAMBDA it : it.Text # NoText))]
    /\ UNCHANGED <<log, turn, ops, last, overlap>>
    /\ UNCHANGED outsideChat

\* the consumer, having cancelled, stops receiving from out
StopReceiving ==
    /\ Running(st)
    /\ st.cancelled
    /\ ~st.abandoned
    /\ st' = [st EXCEPT !.abandoned = TRUE]
    /\ UNCHANGED <<log, turn, ops, last, overlap>>
    /\ UNCHANGED outsideChat

\* Inputs of a construction: the outcomes of the store calls, the mode of the
\* chat's generation config and the outcome of Chats.Create, each behaviour once.
ConstructionInputs ==
    {i \in [storeOk : BOOLEAN, histOk : BOOLEAN, mode : {"AUTO", "bogus"},
            createOk : BOOLEAN] :
        /\ ~i.storeOk => i.histOk /\ i.mode = "bogus"
        /\ i.mode = "bogus" => ~i.createOk}

\* Agent.NewChat(ctx, chatConfig) with inputs i
NewChatWith(i) ==
    /\ ~Running(st)
    /\ LET c == AgentNewChat(log, i.storeOk, i.histOk, i.mode, i.createOk)
       IN  chat' = [op |-> "NewChat", ev |-> c.ev, err |-> c.err, built |-> c.built,
                    contents |-> c.contents]
    /\ last' = NoCallYet
    /\ UNCHANGED <<log, turn, ops, st, overlap, calls, heap, gen, agent, redis, backstage>>

NewChatCall == \E i \in ConstructionInputs : NewChatWith(i) /\ UNCHANGED <<conv, client>>

\* Agent.GetChat(ctx, chatID) with inputs i
GetChatWith(i) ==
    /\ ~Running(st)
    /\ LET c == AgentGetChat(log, i.storeOk, i.histOk, i.mode, i.createOk)
       IN  chat' = [op |-> "GetChat", ev |-> c.ev, err |-> c.err, built |-> c.built,
                    contents |-> c.contents]
    /\ last' = NoCallYet
    /\ UNCHANGED <<log, turn, ops, st, overlap, calls, heap, gen, agent, redis, backstage>>

GetChatCall == \E i \in ConstructionInputs : GetChatWith(i) /\ UNCHANGED <<conv, client>>

\* Chat.SendMessage called by caller c, its entries tagged c: the call is entered
SendMessageEnter(c) ==
    /\ calls[c].pc = "idle"
    /\ ~MustWait(calls, c)
    /\ \E prompt \in Prompts :
        calls' = [calls EXCEPT ![c] = [NoCallInFlight EXCEPT !.pc = "saveUser",
                                                            !.prompt = prompt]]
    /\ UNCHANGED <<log, turn, ops, last, st, overlap, chat, heap, gen, elsewhere>>

\* ... its write of the user entry
SendMessageSaveUser(c) ==
    /\ calls[c].pc = "saveUser"
    /\ \E ok \in BOOLEAN :
        LET u == SaveUserMessage(log, c, calls[c].prompt, ok)
        IN  /\ log' = u.log
            /\ calls' = [calls EXCEPT ![c] =
                    IF u.err # NoErr THEN Returned(@, u.ev, Failed(u.err))
                    ELSE [@ EXCEPT !.pc = "api", !.ev = u.ev]]
    /\ UNCHANGED <<turn, ops, last, st, overlap, chat, heap, gen, elsewhere>>

\* ... its inference call
SendMessageApi(c) ==
    /\ calls[c].pc = "api"
    /\ \E apiOk \in BOOLEAN, res \in CandidateLists :
        /\ ~apiOk => res = <<>>
        /\ LET a == SessionSendMessage(Progress(log, calls[c].ev, NoErr), apiOk,
                                       "error from Gemini SendMessage")
           IN  calls' = [calls EXCEPT ![c] =
                    IF a.err # NoErr THEN Returned(@, a.ev, Failed(a.err))
                    ELSE IF HasModelText(res)
                    THEN [@ EXCEPT !.pc = "saveModel", !.ev = a.ev, !.res = res]
                    ELSE Returned(@, a.ev, ModelResponseFromGeminiContent(res))]
    /\ UNCHANGED <<log, turn, ops, last, st, overlap, chat, heap, gen, elsewhere>>

\* ... its write of the model entry, and its return
SendMessageSaveModel(c) ==
    /\ calls[c].pc = "saveModel"
    /\ \E ok \in BOOLEAN :
        LET m == SaveModelReply(Progress(log, calls[c].ev, NoErr), c, calls[c].res, ok)
        IN  /\ log' = m.log
            /\ calls' = [calls EXCEPT ![c] =
                    Returned(@, m.ev, ModelResponseFromGeminiContent(calls[c].res))]
    /\ UNCHANGED <<turn, ops, last, st, overlap, chat, heap, gen, elsewhere>>

\* Agent.Generate called by caller g: baseGenConfig := cloneGenerationConfig(default)
GenerateClone(g) ==
    /\ gen[g].pc = "idle"
    /\ LET c == cloneGenerationConfig(heap, Stored, g)
       IN  /\ heap' = c.heap
           /\ gen' = [gen EXCEPT ![g] = [NoGenerate EXCEPT !.pc = "cloned", !.base = c.ptr]]
    /\ UNCHANGED <<log, turn, ops, last, st, overlap, calls, chat, elsewhere>>

\* ... the override, when there is one, merged into the copy
GenerateMerge(g) ==
    /\ gen[g].pc = "cloned"
    /\ \E o \in Overrides :
        /\ heap' = IF ~o.nil THEN mergeGenerationConfig(heap, gen[g].base, o) ELSE heap
        /\ gen' = [gen EXCEPT ![g] = [@ EXCEPT !.pc = "merged", !.override = o,
                                               !.before = heap[gen[g].base]]]
    /\ UNCHANGED <<log, turn, ops, last, st, overlap, calls, chat, elsewhere>>

\* ... the call goes on with the merged config and returns; its copy is garbage
GenerateReturn(g) ==
    /\ gen[g].pc = "merged"
    /\ heap' = [heap EXCEPT ![g] = EmptyConfig]
    /\ gen' = [gen EXCEPT ![g] = NoGenerate]
    /\ UNCHANGED <<log, turn, ops, last, st, overlap, calls, chat, elsewhere>>

\* Agent.AddTool(ctx, tool)
AddTool ==
    /\ Len(heap[Stored].Tools) < MaxTools
    /\ \E tool \in ToolNames, storeOk \in BOOLEAN :
        LET r == AgentAddTool(heap[Stored], tool, storeOk)
        IN  /\ heap' = [heap EXCEPT ![Stored] = r.config]
            /\ agent' = [agent EXCEPT !.last =
                    [op |-> "AddTool", name |-> tool, before |-> heap[Stored].Tools,
                     ev |-> r.ev, saved |-> r.saved, err |-> r.err]]
    /\ UNCHANGED <<log, turn, ops, last, st, overlap, calls, chat, gen, conv, redis, further>>

\* Agent.RemoveTool(ctx, toolName)
RemoveTool ==
    /\ \E toolName \in ToolNames, storeOk \in BOOLEAN :
        /\ ~HasTool(heap[Stored].Tools, toolName) => storeOk
        /\ LET r == AgentRemoveTool(heap[Stored], toolName, storeOk)
           IN  /\ heap' = [heap EXCEPT ![Stored] = r.config]
               /\ agent' = [agent EXCEPT !.last =
                       [op |-> "RemoveTool", name |-> toolName,
                        before |-> heap[Stored].Tools, ev |-> r.ev, saved |-> r.saved,
                        err |-> r.err]]
    /\ UNCHANGED <<log, turn, ops, last, st, overlap, calls, chat, gen, conv, redis, further>>

\* the generation config of the ChatConfig handed to Agent.NewChat: none, or its own
ChatOwnConfigs == {NilPtr, Ptr([EmptyConfig EXCEPT !.Tools = <<"t1">>])}

\* Agent.NewChat(ctx, chatConfig) on the agent whose tools are being edited
NewChatOnAgent ==
    /\ ~Running(st)
    /\ \E own \in ChatOwnConfigs, i \in ConstructionInputs :
        LET c == AgentNewChat(log, i.storeOk, i.histOk, i.mode, i.createOk)
        IN  /\ chat' = [op |-> "NewChat", ev |-> c.ev, err |-> c.err, built |-> c.built,
                        contents |-> c.contents]
            /\ agent' = [agent EXCEPT
                    !.session = IF c.built THEN BuildSession(heap, own) ELSE NoSession,
                    !.used = NotSent]
    /\ last' = NoCallYet
    /\ UNCHANGED <<log, turn, ops, st, overlap, calls, heap, gen, conv, redis, further>>

\* one outcome of a send: both writes and the inference call succeed
SessionSendInputs ==
    {i \in SendInputs : i.prompt = <<"p">> /\ i.userOk /\ i.apiOk /\ i.modelOk
                        /\ i.res = <<Candidate(<<TextPart(<<"a">>)>>)>>}

\* Chat.SendMessage on the session built by NewChatOnAgent
SendOnSession ==
    /\ agent.session.built
    /\ ~InFlight(st)
    /\ SendMessageFrom(SessionSendInputs)
    /\ agent' = [agent EXCEPT !.used =
            [sent |-> TRUE, config |-> SessionConfig(heap, agent.session),
             default |-> heap[Stored]]]
    /\ UNCHANGED <<calls, heap, gen, conv, redis, further>>

\* Calls on one chat made one at a time, a stream counted as finished when its
\* channel is closed.
Next ==
    \/ SendMessage
    \/ SendToolResponse
    \/ Generate
    \/ SendMessageStream
    \/ StreamStep

Spec == Init /\ [][Next]_vars

\* Calls made as soon as the previous call has returned to the caller:
\* SendMessageStream returns while its goroutine is still running.
NextEarly ==
    \/ Next
    \/ SendMessageEarly
    \/ SendToolResponseEarly

SpecEarly == Init /\ [][NextEarly]_vars

\* Streams alone. The goroutine takes its next step whenever it has one: the
\* store and the upstream iterator answer every call, and the consumer receives
\* as long as it has not stopped.
NextStream ==
    \/ SendMessageStream
    \/ StreamStep

SpecStream == Init /\ [][NextStream]_vars /\ WF_vars(StreamStep)

\* Streams whose caller may cancel ctx and then stop receiving.
NextCancel ==
    \/ NextStream
    \/ Cancel
    \/ StopReceiving

SpecCancel == Init /\ [][NextCancel]_vars /\ WF_vars(StreamStep)

\* The synchronous calls together with the construction of chats over the log
\* they leave.
NextHistory ==
    \/ SendMessage
    \/ SendToolResponse
    \/ Generate
    \/ NewChatCall
    \/ GetChatCall

SpecHistory == Init /\ [][NextHistory]_vars

\* Two callers in SendMessage on the same chat at the same time.
NextConcurrent ==
    \E c \in Callers :
        \/ SendMessageEnter(c)
        \/ SendMessageSaveUser(c)
        \/ SendMessageApi(c)
        \/ SendMessageSaveModel(c)

SpecConcurrent == Init /\ [][NextConcurrent]_vars

\* Two callers in Agent.Generate at the same time, over every stored default.
InitConfig == \E default \in StoredDefaults : InitWith(default)

NextConfig ==
    \E g \in GenCallers :
        \/ GenerateClone(g)
        \/ GenerateMerge(g)
        \/ GenerateReturn(g)

SpecConfig == InitConfig /\ [][NextConfig]_vars

\* the sends of a caller who may pass a prompt without text
AnyPromptSendInputs ==
    {i \in [prompt : {NoText, <<"p">>}, userOk : BOOLEAN, apiOk : BOOLEAN,
            res : CandidateLists, modelOk : BOOLEAN] :
        /\ ~i.userOk => ~i.apiOk
        /\ ~i.apiOk => i.res = <<>>
        /\ ~HasModelText(i.res) => i.modelOk}

\* Chat.SendMessage(ctx, prompt), prompt.Text empty or not
SendMessageAnyPrompt ==
    /\ ~InFlight(st)
    /\ SendMessageFrom(AnyPromptSendInputs)
    /\ UNCHANGED <<calls, heap, gen, elsewhere>>

\* Calls with prompts of every kind, the empty one included.
NextPrompt ==
    \/ SendMessageAnyPrompt
    \/ Generate

SpecPrompt == Init /\ [][NextPrompt]_vars

\* the files and prompts handed to the adapter
FileSet ==
    {FileConfig("data", "", "image/png"), FileConfig("data", "/tmp/f", ""),
     FileConfig("", "https://h/f", ""), FileConfig("", "/tmp/f", "text/plain"),
     FileConfig("", "/missing", ""), FileConfig("", "gs://b/f", ""), FileConfig("", "", "")}

Payloads == {"", "k:v", "chan"}

PromptSet ==
    {Prompt(t, s, f) : t \in {NoText, <<"p">>}, s \in {Nil} \cup Payloads,
                       f \in SeqsUpTo(FileSet, MaxFiles)}

Conversion(op, in, out) == [op |-> op, in |-> in, out |-> out]

\* adapter.GeminiContentFromPrompt(prompt); the conversions are functions of
\* their argument alone, a behaviour applies one of them to one input
ConvertPrompt ==
    /\ conv.op = "none"
    /\ \E prompt \in PromptSet :
        conv' = Conversion("GeminiContentFromPrompt", prompt, GeminiContentFromPrompt(prompt))
    /\ UNCHANGED <<log, turn, ops, last, st, overlap, calls, chat, heap, gen, agent, redis, further>>

\* the candidate lists handed to the adapter: up to two candidates, the first
\* with parts of every kind, one of them with a text next to its function call
ResponsePartSet ==
    PartSet \cup {TextPart(<<"b">>), CallPart("g"), [Text |-> <<"c">>, FunctionCall |-> "f"]}

FirstCandidates ==
    {Candidate(p) : p \in SeqsUpTo(ResponsePartSet, MaxParts)} \cup {NilContent}

LaterCandidates == {NilContent, Candidate(<<TextPart(<<"b">>)>>), Candidate(<<CallPart("g")>>)}

ResponseLists ==
    {<<>>} \cup {<<c>> : c \in FirstCandidates}
           \cup {<<c, d>> : c \in FirstCandidates, d \in LaterCandidates}

\* adapter.ModelResponseFromGeminiContent(res)
ConvertResponse ==
    /\ conv.op = "none"
    /\ \E res \in ResponseLists :
        conv' = Conversion("ModelResponseFromGeminiContent", res,
                           ModelResponseFromGeminiContent(res))
    /\ UNCHANGED <<log, turn, ops, last, st, overlap, calls, chat, heap, gen, agent, redis, further>>

\* the modes handed to the adapter: the known ones, and others
ModeSet == ValidModes \cup {"auto", "Any", "INVALID_MODE", "bogus"}

\* adapter.convertFunctionCallingMode(mode)
ConvertMode ==
    /\ conv.op = "none"
    /\ \E mode \in ModeSet :
        conv' = Conversion("convertFunctionCallingMode", mode, convertFunctionCallingMode(mode))
    /\ UNCHANGED <<log, turn, ops, last, st, overlap, calls, chat, heap, gen, agent, redis, further>>

\* the tools handed to the adapter: each side without a config, or with a
\* config in which any of the three schemas is set
SchemaConfigs(json, schema, genai) ==
    {NoSchemaConfig} \cup
    {SchemaConfig(j, s, g) : j \in {Nil, json}, s \in {Nil, schema}, g \in {Nil, genai}}

ToolSet ==
    {Tool(n, "about " \o n, req, resp) :
        n \in ToolNames,
        req \in SchemaConfigs("request map", "request struct", "request schema"),
        resp \in SchemaConfigs("response map", "response struct", "response schema")}

\* adapter.BuildGeminiTool(tool)
ConvertTool ==
    /\ conv.op = "none"
    /\ \E tool \in ToolSet : conv' = Conversion("BuildGeminiTool", tool, BuildGeminiTool(tool))
    /\ UNCHANGED <<log, turn, ops, last, st, overlap, calls, chat, heap, gen, agent, redis, further>>

\* The conversions of the adapter, each applied to every input.
NextAdapter ==
    \/ ConvertPrompt
    \/ ConvertResponse
    \/ ConvertMode
    \/ ConvertTool

\* the inputs of a Generate whose lookup of the user is noted: a prompt with
\* or without text for each outcome of the lookup
ObservedGenerateInputs ==
    {i \in [mode : ModeInputs, user : UserLookups, text : {<<"p">>, NoText},
            apiOk : BOOLEAN, respNil : BOOLEAN, res : CandidateLists] :
        /\ i.mode = "bogus" => i.user = "none" /\ i.text = NoText
        /\ (i.mode = "bogus" \/ i.user = "context" \/ i.text = NoText) => ~i.apiOk
        /\ ~i.apiOk => i.respNil
        /\ i.respNil => i.res = <<>>}

\* Agent.Generate, with the mode of its merged config, the outcome of
\* FindUserByID and the outcome of the config's conversion noted
GenerateObserved ==
    \E i \in ObservedGenerateInputs :
        GenerateWith(i)
        /\ conv' = Conversion("Generate", [mode |-> i.mode, user |-> i.user],
                              GeminiConfigFromGenerationConfig(i.mode))
        /\ UNCHANGED client

\* Agent.NewChat, the mode of the chat's config and the outcome of the
\* config's conversion noted
NewChatWithMode ==
    \E i \in ConstructionInputs :
        NewChatWith(i)
        /\ conv' = Conversion("NewChat", i.mode, GeminiConfigFromGenerationConfig(i.mode))
        /\ UNCHANGED client

\* The mode conversion and the calls that convert a generation config.
NextModes ==
    \/ ConvertMode
    \/ GenerateObserved
    \/ NewChatWithMode

SpecModes == Init /\ [][NextModes]_vars

SpecAdapter == Init /\ [][NextAdapter]_vars

\* what the gateway's operations leave alone
outsideGateway ==
    <<log, turn, ops, last, st, overlap, calls, chat, heap, gen, agent, conv, further>>

\* redisclient.NewRedisClient(client, isDisabled) over the same server
NewRedisClient ==
    /\ \E isDisabled \in BOOLEAN :
        redis' = [redis EXCEPT !.made = "NewRedisClient", !.isDisabled = isDisabled,
                               !.last = NoGatewayOp, !.read = NoHistoryRead]
    /\ UNCHANGED outsideGateway

\* NewGenaiClient: redisclient.NewRedisClient(redisInstance, false)
NewGenaiClient ==
    /\ redis' = [redis EXCEPT !.made = "NewGenaiClient", !.isDisabled = FALSE,
                              !.last = NoGatewayOp, !.read = NoHistoryRead]
    /\ UNCHANGED outsideGateway

\* a helper was called: the server it leaves and what it returned
Helped(op, d) ==
    redis' = [redis EXCEPT !.server = d.server,
                           !.last = [op |-> op, bytes |-> d.bytes, ids |-> d.ids,
                                     err |-> d.err, sent |-> d.sent]]

DoSetJSON ==
    /\ redis.made # "none"
    /\ \E key \in RedisKeys, data \in EntityData, ok \in BOOLEAN :
        /\ redis.isDisabled => ok
        /\ Helped("setJSON", setJSON(redis.isDisabled, redis.server, key, data, ok))
    /\ UNCHANGED outsideGateway

DoGetJSONBytes ==
    /\ redis.made # "none"
    /\ \E key \in RedisKeys, ok \in BOOLEAN :
        Helped("getJSONBytes", getJSONBytes(redis.isDisabled, redis.server, key, ok))
    /\ UNCHANGED outsideGateway

DoDeleteKeys ==
    /\ redis.made # "none"
    /\ \E keys \in SUBSET RedisKeys, ok \in BOOLEAN :
        /\ redis.isDisabled => ok
        /\ Helped("deleteKeys", deleteKeys(redis.isDisabled, redis.server, keys, ok))
    /\ UNCHANGED outsideGateway

DoSaveToSet ==
    /\ redis.made # "none"
    /\ \E id \in EntityIds, ok \in BOOLEAN :
        /\ redis.isDisabled => ok
        /\ Helped("saveToSet", saveToSet(redis.isDisabled, redis.server, id, ok))
    /\ UNCHANGED outsideGateway

DoRemoveFromSet ==
    /\ redis.made # "none"
    /\ \E id \in EntityIds, ok \in BOOLEAN :
        /\ redis.isDisabled => ok
        /\ Helped("removeFromSet", removeFromSet(redis.isDisabled, redis.server, id, ok))
    /\ UNCHANGED outsideGateway

DoGetSetByKey ==
    /\ redis.made # "none"
    /\ \E ok \in BOOLEAN :
        Helped("getSetByKey", getSetByKey(redis.isDisabled, redis.server, ok))
    /\ UNCHANGED outsideGateway

\* Clients built over one server, enabled or disabled, and their helpers.
NextGateway ==
    \/ NewRedisClient
    \/ NewGenaiClient
    \/ DoSetJSON
    \/ DoGetJSONBytes
    \/ DoDeleteKeys
    \/ DoSaveToSet
    \/ DoRemoveFromSet
    \/ DoGetSetByKey

SpecGateway == Init /\ [][NextGateway]_vars

\* the messages appended to the chats' logs
LogMessages == {[Role |-> r, Content |-> <<"p">>] : r \in {"user", "model"}}

\* RedisClient.SaveChatMessage(ctx, chatID, message)
DoSaveChatMessage ==
    /\ redis.made # "none"
    /\ \E c \in ChatIds, m \in LogMessages :
        /\ Len(redis.appended[c]) < MaxMessages
        /\ LET d == RedisClientSaveChatMessage(redis.server, c, m)
           IN  redis' = [redis EXCEPT
                    !.server = d.server,
                    !.appended[c] = IF d.err = NoErr THEN Append(@, m) ELSE @,
                    !.last = [op |-> "SaveChatMessage", bytes |-> d.bytes, ids |-> d.ids,
                              err |-> d.err, sent |-> d.sent]]
    /\ UNCHANGED outsideGateway

\* RedisClient.GetChatHistory(ctx, chatID)
DoGetChatHistory ==
    /\ redis.made # "none"
    /\ \E c \in ChatIds :
        LET h == RedisClientGetChatHistory(redis.server, c)
        IN  redis' = [redis EXCEPT
                !.read = [chat |-> c, history |-> h.history, err |-> h.err],
                !.last = [NoGatewayOp EXCEPT !.op = "GetChatHistory", !.err = h.err]]
    /\ UNCHANGED outsideGateway

\* The message logs of the chats, appended to and read back.
NextLog ==
    \/ NewRedisClient
    \/ NewGenaiClient
    \/ DoSaveChatMessage
    \/ DoGetChatHistory

SpecLog == Init /\ [][NextLog]_vars

\* An agent whose tools are edited while chats are built from it and used.
NextTools ==
    \/ AddTool
    \/ RemoveTool
    \/ NewChatOnAgent
    \/ SendOnSession

SpecTools == InitConfig /\ [][NextTools]_vars

\* A chat whose live upstream session is followed next to its log: what the
\* session was sent and what it answered, and the chats rebuilt from the log.
\* the text part SendToolResponse sends to the session
ToolResponseText(fn, resultJSON) ==
    <<"{tool_response: {name: ", fn, ", result: ", resultJSON, "}}">>

\* c.session.SendMessage(ctx, genai.Part{Text: text}) seen from the upstream
\* session: the user content it was sent and, when the call succeeded with a
\* candidate that has content, the model content it answered with
Exchanged(lv, text, called, apiOk, res) ==
    IF ~called THEN lv
    ELSE LET sent == Append(lv, [Role |-> "user", Parts |-> <<TextPart(text)>>])
         IN  IF apiOk /\ Len(res) > 0 /\ res[1].HasContent
             THEN Append(sent, [Role |-> "model", Parts |-> res[1].Parts])
             ELSE sent

\* the answers of the session followed here: no candidate, a candidate
\* without content, and candidates with at most one part
LiveResponses == {r \in CandidateLists : Len(r) > 0 => Len(r[1].Parts) <= 1}

\* Chat.SendMessage with the session's side of the call recorded
SendMessageLive ==
    /\ ~InFlight(st)
    /\ \E i \in {j \in SendInputs : j.res \in LiveResponses} :
        /\ SendMessageFrom({i})
        /\ live' = Exchanged(live, i.prompt, i.userOk, i.apiOk, i.res)
    /\ UNCHANGED <<calls, heap, gen, agent, conv, redis, client, sess>>

\* Chat.SendToolResponse with the session's side of the call recorded
SendToolResponseLive ==
    /\ ~InFlight(st)
    /\ \E i \in {j \in ToolInputs : j.res \in LiveResponses} :
        /\ SendToolResponseFrom({i})
        /\ live' = Exchanged(live, ToolResponseText(i.fn, i.result), i.jsonOk, i.apiOk,
                             i.res)
    /\ UNCHANGED <<calls, heap, gen, agent, conv, redis, client, sess>>

NextRehydrate ==
    \/ SendMessageLive
    \/ SendToolResponseLive
    \/ NewChatCall
    \/ GetChatCall

SpecRehydrate == Init /\ [][NextRehydrate]_vars

\* The client as a factory: agents made and fetched, their generate calls and
\* the chats they open.
outsideClient ==
    <<log, turn, ops, last, st, overlap, calls, chat, heap, gen, agent, conv, redis,
      backstage>>

ClientCall(op, id, via) == [NoClientCall EXCEPT !.op = op, !.agent = id, !.via = via]

\* Genaiclient.NewAgent(ctx, agentConfig): the caller keeps the agent returned;
\* an agent fetched for the config this one replaces is let go
NewAgentCall ==
    /\ \E id \in AgentIds, model \in AgentModels, storeOk \in BOOLEAN :
        LET r == GenaiclientNewAgent(client.agents, AgentConfig(id, model), storeOk)
        IN  client' = [client EXCEPT
                !.agents = r.agents,
                !.made[id] = IF r.err = NoErr THEN r.agent ELSE @,
                !.got[id] = IF r.err = NoErr THEN NoAgent ELSE @,
                !.last = [ClientCall("NewAgent", id, "") EXCEPT !.err = r.err]]
    /\ UNCHANGED outsideClient

\* Genaiclient.GetAgent(ctx, agentID)
GetAgentCall ==
    /\ \E id \in AgentIds, storeOk \in BOOLEAN :
        LET r == GenaiclientGetAgent(client.agents, id, storeOk)
        IN  client' = [client EXCEPT
                !.got[id] = IF r.err = NoErr THEN r.agent ELSE @,
                !.last = [ClientCall("GetAgent", id, "") EXCEPT !.err = r.err]]
    /\ UNCHANGED outsideClient

\* the agent of that id the caller holds, from NewAgent or from GetAgent
Held(id, via) == IF via = "NewAgent" THEN client.made[id] ELSE client.got[id]

Ways == {"NewAgent", "GetAgent"}

\* Agent.Generate on an agent the caller holds: the model name it hands to
\* Models.GenerateContent, when it comes to call it
ClientGenerateInputs ==
    {j \in GenerateInputs :
        /\ j.mode = "AUTO" /\ j.user = "none"
        /\ j.res \in {<<>>, <<Candidate(<<TextPart(<<"a">>)>>)>>}}

GenerateOnAgent ==
    \E id \in AgentIds, via \in Ways, promptModel \in PromptModels,
       i \in ClientGenerateInputs :
        /\ ~Held(id, via).nil
        /\ GenerateWith(i)
        /\ LET r == AgentGenerate(i.mode, i.user, i.text, i.apiOk, i.respNil, i.res)
               reached == \E k \in 1..Len(r.ev) : r.ev[k].kind = "api"
           IN  client' = [client EXCEPT !.last =
                   [ClientCall("Generate", id, via) EXCEPT
                       !.promptModel = promptModel,
                       !.reached = reached,
                       !.model = IF reached THEN GenerateModel(Held(id, via), promptModel)
                                 ELSE "",
                       !.err = r.ret.Error]]
        /\ UNCHANGED conv

\* the constructions followed here: the chat config's write or read fails, or
\* it succeeds and Chats.Create fails or succeeds
OwnershipInputs ==
    {i \in ConstructionInputs : i.histOk /\ (i.storeOk => i.mode = "AUTO")}

\* Agent.NewChat on an agent the caller holds, for a chat config that names
\* no agent or another one
NewChatByAgent ==
    \E id \in AgentIds, via \in Ways, c \in ChatIds, u \in UserIds,
       given \in {"", "a2"}, i \in OwnershipInputs :
        /\ ~Held(id, via).nil
        /\ NewChatWith(i)
        /\ LET chatConfig == StampAgentID(Held(id, via), ChatConfig(c, given, u))
               r == AgentNewChat(log, i.storeOk, i.histOk, i.mode, i.createOk)
           IN  client' = [client EXCEPT
                   !.chats[c] = IF i.storeOk THEN chatConfig ELSE @,
                   !.last = [ClientCall("NewChat", id, via) EXCEPT
                       !.session = IF r.built THEN ChatOf(chatConfig) ELSE NoChat,
                       !.err = r.err]]
        /\ UNCHANGED conv

\* Agent.GetChat on an agent the caller holds: the chat config is the one the
\* store holds under that id, and the read fails when it holds none
GetChatByAgent ==
    \E id \in AgentIds, via \in Ways, c \in ChatIds, i \in OwnershipInputs :
        /\ ~Held(id, via).nil
        /\ i.storeOk => ~client.chats[c].nil
        /\ GetChatWith(i)
        /\ LET r == AgentGetChat(log, i.storeOk, i.histOk, i.mode, i.createOk)
           IN  client' = [client EXCEPT !.last =
                   [ClientCall("GetChat", id, via) EXCEPT
                       !.session = IF r.built THEN ChatOf(client.chats[c]) ELSE NoChat,
                       !.err = r.err]]
        /\ UNCHANGED conv

\* Agents made and fetched, and their generate calls.
NextClient ==
    \/ NewAgentCall
    \/ GetAgentCall
    \/ GenerateOnAgent

SpecClient == Init /\ [][NextClient]_vars

\* Agents made and fetched, and the chats they open.
NextOwnership ==
    \/ NewAgentCall
    \/ GetAgentCall
    \/ NewChatByAgent
    \/ GetChatByAgent

SpecOwnership == Init /\ [][NextOwnership]_vars

\* The session service: sessions created, loaded, appended to, deleted and
\* listed. Each call draws its arguments from the sets it is given.
outsideSessions ==
    <<log, turn, ops, last, st, overlap, calls, chat, heap, gen, agent, conv, redis, live,
      client>>

ServiceCall(op, user, id, up, r) ==
    [NoServiceCall EXCEPT !.op = op, !.user = user, !.id = id, !.up = up,
                          !.before = [db |-> sess.db, session |-> sess.held[user]],
                          !.session = r.session, !.err = r.err]

\* NewRedisSessionService(client, ttl)
NewRedisSessionService ==
    /\ ~sess.made
    /\ \E ttl \in {0, 1} : sess' = [sess EXCEPT !.made = TRUE, !.ttl = ttl]
    /\ UNCHANGED outsideSessions

\* RedisSessionService.Create: the caller of the user keeps the session returned
CreateWith(users, ids, ups) ==
    /\ sess.made
    /\ \E u \in users, id \in ids, up \in ups :
        LET r == RedisSessionServiceCreate(sess.db, sess.ttl, "app", u, id, "t0", up)
        IN  sess' = [sess EXCEPT !.db = r.db,
                                 !.held[u] = IF r.err = NoErr THEN r.session ELSE @,
                                 !.last = ServiceCall("Create", u, id, up, r)]
    /\ UNCHANGED outsideSessions

\* RedisSessionService.Get
GetWith(users, ids, ups) ==
    /\ sess.made
    /\ \E u \in users, id \in ids, up \in ups :
        LET r == RedisSessionServiceGet(sess.db, sess.ttl, "app", u, id, "t0", up)
        IN  sess' = [sess EXCEPT !.db = r.db,
                                 !.held[u] = IF r.err = NoErr THEN r.session ELSE @,
                                 !.last = ServiceCall("Get", u, id, up, r)]
    /\ UNCHANGED outsideSessions

\* RedisSessionService.AppendEvent on the session the caller of the user
\* holds, at most max times
AppendEventWith(users, events, ups, max) ==
    /\ sess.made
    /\ sess.appends < max
    /\ \E u \in users, event \in events, up \in ups :
        LET r == RedisSessionServiceAppendEvent(sess.db, sess.ttl, sess.held[u], event, up)
            applied == ~sess.held[u].nil /\ ~event.Partial
        IN  sess' = [sess EXCEPT
                !.db = r.db,
                !.held[u] = r.session,
                !.wrote[u] = IF applied THEN @ \cup DOMAIN StateDelta(event) ELSE @,
                !.appends = @ + 1,
                !.given = IF applied THEN Append(@, [event |-> event, up |-> up]) ELSE @,
                !.last = [ServiceCall("AppendEvent", u, sess.held[u].id, up, r)
                              EXCEPT !.event = event]]
    /\ UNCHANGED outsideSessions

\* RedisSessionService.Delete
DeleteWith(users, ids, ups) ==
    /\ sess.made
    /\ \E u \in users, id \in ids, up \in ups :
        LET db == RedisSessionServiceDelete(sess.db, "app", u, id, up)
        IN  sess' = [sess EXCEPT
                !.db = db,
                !.last = ServiceCall("Delete", u, id, up, Served(db, NilSession, NoErr))]
    /\ UNCHANGED outsideSessions

\* RedisSessionService.List
ListWith(users, ups) ==
    /\ sess.made
    /\ \E u \in users, up \in ups :
        LET r == RedisSessionServiceList(sess.db, sess.ttl, "app", u, "t0", up)
        IN  sess' = [sess EXCEPT
                !.db = r.db,
                !.last = [ServiceCall("List", u, "", up, Served(r.db, NilSession, NoErr))
                              EXCEPT !.sessions = r.sessions]]
    /\ UNCHANGED outsideSessions

\* the events of one test: partial or not, with no state delta, with a delta
\* of a plain key, or with a delta of a plain and a temporary key
Deltas ==
    {EmptyMap, [k \in {"k"} |-> <<"v">>],
     [k \in StateKeys |-> IF k = "k" THEN <<"v">> ELSE <<"w">>]}
EventSet == {Event("e", partial, "t1", delta) : partial \in BOOLEAN, delta \in Deltas}

\* One user's session, given events of every kind.
CreateOne == CreateWith({"u1"}, {"s1"}, BOOLEAN)
GetOne == GetWith({"u1"}, {"s1"}, BOOLEAN)
AppendEventOne == AppendEventWith({"u1"}, EventSet, BOOLEAN, MaxEvents)

NextPartial ==
    \/ NewRedisSessionService
    \/ CreateOne
    \/ GetOne
    \/ AppendEventOne

SpecPartial == Init /\ [][NextPartial]_vars

\* One session given more events than Get loads, numbered in the order of
\* the calls, and loaded at any time.
NumberedEvent == {Event(EventIds[sess.appends + 1], FALSE, "t1", EmptyMap)}
Refused == Len(SelectSeq(sess.given, LAMBDA g : ~g.up))
AppendEventNumbered ==
    AppendEventWith({"u1"}, NumberedEvent, IF Refused < MaxRefused THEN BOOLEAN ELSE {TRUE},
                    MaxAppends)

NextRoundTrip ==
    \/ NewRedisSessionService
    \/ CreateOne
    \/ AppendEventNumbered
    \/ GetOne

SpecRoundTrip == Init /\ [][NextRoundTrip]_vars

\* Two users of one app, a session each.
CreateEach == CreateWith(Users, {"s1"}, BOOLEAN)
GetEach == GetWith(Users, {"s1"}, BOOLEAN)
AppendEventEach ==
    AppendEventWith(Users, {Event("e", FALSE, "t1", delta) : delta \in Deltas}, BOOLEAN,
                    MaxEvents)

NextIsolation ==
    \/ NewRedisSessionService
    \/ CreateEach
    \/ GetEach
    \/ AppendEventEach

SpecIsolation == Init /\ [][NextIsolation]_vars

\* The sessions of one user, created, appended to, deleted and listed.
CreateAny == CreateWith({"u1"}, SessionIds, BOOLEAN)
DeleteAny == DeleteWith({"u1"}, SessionIds, BOOLEAN)
ListAny == ListWith({"u1"}, BOOLEAN)
AppendEventAny ==
    AppendEventWith({"u1"}, {Event("e", FALSE, "t1", delta) : delta \in Deltas}, BOOLEAN,
                    MaxEvents)

NextList ==
    \/ NewRedisSessionService
    \/ CreateAny
    \/ AppendEventAny
    \/ DeleteAny
    \/ ListAny

SpecList == Init /\ [][NextList]_vars

\* AppendEvent of concurrent callers on the one session object of user u1,
\* statement by statement. The events are numbered in the order the calls
\* begin.
SharedEvents(n) ==
    {Event(EventIds[n], partial, "t1", delta) :
        partial \in BOOLEAN, delta \in {EmptyMap, [k \in {"k"} |-> <<EventIds[n]>>]}}
Shared == sess.held["u1"]

CreateShared == Shared.nil /\ CreateWith({"u1"}, {"s1"}, BOOLEAN)

\* the call, the type assertion and the check for a partial event
AppendBegin(c) ==
    /\ sess.made
    /\ sess.calls[c].pc = "idle"
    /\ sess.appends < MaxConcurrent
    /\ \E event \in SharedEvents(sess.appends + 1), up \in BOOLEAN :
        sess' = IF Shared.nil \/ event.Partial
                THEN [sess EXCEPT !.appends = @ + 1]
                ELSE [sess EXCEPT !.appends = @ + 1,
                                  !.calls[c] = [pc |-> "lock", event |-> event, up |-> up],
                                  !.given = Append(@, [event |-> event, up |-> up])]
    /\ UNCHANGED outsideSessions

\* rsess.mu.Lock()
AppendLock(c) ==
    /\ sess.calls[c].pc = "lock"
    /\ ~MustWaitForLock(sess, c)
    /\ sess' = [sess EXCEPT !.mu = c, !.calls[c].pc = "state"]
    /\ UNCHANGED outsideSessions

\* the state delta, applied to the session and sent to the three hashes
AppendState(c) ==
    LET call == sess.calls[c]
    IN  /\ call.pc = "state"
        /\ sess' = [sess EXCEPT
                !.held["u1"] = MergeState(@, call.event),
                !.db = PersistState(@, MergeState(Shared, call.event), call.event, call.up),
                !.wrote["u1"] = @ \cup DOMAIN StateDelta(call.event),
                !.calls[c].pc = "push"]
        /\ UNCHANGED outsideSessions

\* RPush of the event
AppendPush(c) ==
    LET call == sess.calls[c]
    IN  /\ call.pc = "push"
        /\ sess' = [sess EXCEPT !.db = PushEvent(@, Shared, call.event, call.up),
                                 !.calls[c].pc = "record"]
        /\ UNCHANGED outsideSessions

\* rsess.events = append(rsess.events, event), and updatedAt
AppendRecord(c) ==
    LET call == sess.calls[c]
    IN  /\ call.pc = "record"
        /\ sess' = [sess EXCEPT !.held["u1"] = RecordEvent(@, call.event),
                                 !.calls[c].pc = "meta"]
        /\ UNCHANGED outsideSessions

\* the metadata and the TTL, then the return with the deferred Unlock
AppendReturn(c) ==
    LET call == sess.calls[c]
    IN  /\ call.pc = "meta"
        /\ sess' = [sess EXCEPT !.db = UpdateMeta(@, sess.ttl, Shared, call.up),
                                 !.mu = 0,
                                 !.calls[c] = NoAppend]
        /\ UNCHANGED outsideSessions

NextShared ==
    \/ NewRedisSessionService
    \/ CreateShared
    \/ \E c \in Callers :
        \/ AppendBegin(c)
        \/ AppendLock(c)
        \/ AppendState(c)
        \/ AppendPush(c)
        \/ AppendRecord(c)
        \/ AppendReturn(c)

SpecShared == Init /\ [][NextShared]_vars

\* ---------------------------------------------------------------- properties
CountIf(seq, Test(_)) == Len(SelectSeq(seq, Test))

IsApiCall(e) == e.kind = "api"
IsModel(m) == m.role = "model"
ApiCalls(ev) == CountIf(ev, IsApiCall)
Happened(ev, e) == \E i \in 1..Len(ev) : ev[i] = e
AllSucceeded(ev) == \A i \in 1..Len(ev) : ev[i].ok

\* the entries the last synchronous call appended
NewEntries == SubSeq(log, last.before + 1, last.after)
\* the entries of turn t
Entries(t) == SelectSeq(log, LAMBDA m : m.turn = t)
ModelEntries(t) == SelectSeq(log, LAMBDA m : m.turn = t /\ m.role = "model")
Roles(seq) == [i \in 1..Len(seq) |-> seq[i].role]

\* the reply carries non-empty text in some part of its first candidate
ContainsText(res) ==
    /\ Len(res) > 0
    /\ res[1].HasContent
    /\ \E i \in 1..Len(res[1].Parts) : res[1].Parts[i].Text # NoText

\* every part of the reply is a function call or a text that is not blank
NoBlankText(res) ==
    \A i \in 1..Len(res[1].Parts) :
        \/ res[1].Parts[i].FunctionCall # NoCall
        \/ TrimSpace(res[1].Parts[i].Text) # NoText

\* the text fragments a consumer received, concatenated in order
RECURSIVE ConcatTexts(_)
ConcatTexts(items) ==
    IF items = <<>> THEN NoText ELSE Head(items).Text \o ConcatTexts(Tail(items))

IsErrorItem(it) == it.Error # NoErr
IsTextItem(it) == it.Text # NoText

\* C1: when SendMessage cannot persist the user entry it returns an error,
\* calls the inference API zero times and appends nothing to the log.
C1_PreCallPersistenceFailure ==
    (last.op = "SendMessage" /\ Happened(last.ev, Ev("save", "user", FALSE))) =>
        /\ last.ret.Error # NoErr
        /\ ApiCalls(last.ev) = 0
        /\ last.after = last.before
        /\ Len(log) = last.before

C1_Witness ==
    /\ last.op = "SendMessage"
    /\ Happened(last.ev, Ev("save", "user", FALSE))
    /\ Len(log) > 0

\* C2: every model entry written by a SendMessage or SendMessageStream turn has
\* the user entry of the same turn earlier in the log, whatever store write or
\* inference call failed on the way.
C2_NoGhostReply ==
    \A i \in 1..Len(log) :
        (log[i].role = "model" /\ ops[log[i].turn] \in {"SendMessage", "SendMessageStream"}) =>
            \E j \in 1..(i - 1) : log[j].role = "user" /\ log[j].turn = log[i].turn

C2_Witness ==
    /\ turn = 2
    /\ ops = <<"SendMessage", "SendMessageStream">>
    /\ Entries(1) = <<>>
    /\ Roles(log) = <<"user", "model">>

\* C3 as claimed: with every call issued only after the previous call returned
\* to its caller, the log lists the entries in turn order.
TurnOrdered == \A i, j \in 1..Len(log) : i < j => log[i].turn <= log[j].turn

C3_TurnOrder_AsClaimed == TurnOrdered

\* C3 amended: the log is in turn order when every call was issued after the
\* previous call completed, a stream completing when its channel is closed.
C3_TurnOrder == ~overlap => TurnOrdered

C3_Witness ==
    /\ ~overlap
    /\ turn = 2
    /\ ops[1] = "SendMessageStream"
    /\ ops[2] \in {"SendMessage", "SendToolResponse"}
    /\ ModelEntries(1) # <<>>
    /\ Entries(2) # <<>>

\* C4: SendMessage on an empty log, store and API succeeding, reply with
\* non-empty text (each part a function call or a text that is not blank):
\* the log is <<user prompt, model reply>> and the returned Text is the content
\* of the model entry.
C4_SyncSend ==
    (/\ last.op = "SendMessage"
     /\ last.before = 0
     /\ AllSucceeded(last.ev)
     /\ ContainsText(last.res)
     /\ NoBlankText(last.res)) =>
        /\ Len(log) = 2
        /\ log[1].role = "user" /\ log[1].content = last.prompt
        /\ log[2].role = "model" /\ log[2].content = last.ret.Text

\* C5: a SendMessage that returns a function call and no text appends no model
\* entry; the SendToolResponse that follows and is answered with text leaves
\* user, tool, model in the log, the tool entry written before the inference
\* call and the model entry after it (store and API succeeding, each part of a
\* reply a function call or a text that is not blank).
C5_ToolRoundTrip ==
    /\ (/\ last.op = "SendMessage"
        /\ AllSucceeded(last.ev)
        /\ last.ret.Error = NoErr
        /\ NoBlankText(last.res)
        /\ last.ret.FunctionCall # NoCall
        /\ last.ret.Text = NoText) =>
            Roles(NewEntries) = <<"user">>
    /\ (/\ last.op = "SendToolResponse"
        /\ last.prev.op = "SendMessage"
        /\ last.prev.ret.Error = NoErr
        /\ last.prev.ret.FunctionCall # NoCall
        /\ last.prev.ret.Text = NoText
        /\ Roles(Entries(last.turn - 1)) = <<"user">>
        /\ AllSucceeded(last.ev)
        /\ last.ret.Error = NoErr
        /\ ContainsText(last.res)
        /\ NoBlankText(last.res)
        /\ last.ret.Text # NoText) =>
            /\ Roles(log) = <<"user", "tool", "model">>
            /\ last.ev = <<Ev("save", "tool", TRUE), Ev("api", "model", TRUE),
                           Ev("save", "model", TRUE)>>

\* C6: with the inference call succeeded, a failed write of the model entry or
\* of the tool entry changes nothing in what the call returns: the API was
\* called once and the converted response is returned, without error when the
\* model entry was the one that failed.
C6_PostCallPersistenceNotFatal ==
    (/\ last.op \in {"SendMessage", "SendToolResponse"}
     /\ (\/ Happened(last.ev, Ev("save", "model", FALSE))
         \/ Happened(last.ev, Ev("save", "tool", FALSE)))) =>
        /\ ApiCalls(last.ev) = 1
        /\ Happened(last.ev, Ev("api", "model", TRUE)) =>
               last.ret = ModelResponseFromGeminiContent(last.res)
        /\ Happened(last.ev, Ev("save", "model", FALSE)) => last.ret.Error = NoErr

C6_Witness ==
    /\ last.op = "SendToolResponse"
    /\ Happened(last.ev, Ev("save", "tool", FALSE))
    /\ Happened(last.ev, Ev("save", "model", FALSE))
    /\ last.ret.Text # NoText

\* C7: one invocation of SendMessage, SendToolResponse or Generate calls the
\* inference API at most once; a failed call comes back as a wrapped error and
\* no model entry is written.
C7_NoRetry ==
    last.op \in {"SendMessage", "SendToolResponse", "Generate"} =>
        /\ ApiCalls(last.ev) <= 1
        /\ Happened(last.ev, Ev("api", "model", FALSE)) =>
            /\ Len(last.ret.Error) = 2 /\ last.ret.Error[2] = "api"
            /\ CountIf(NewEntries, IsModel) = 0
            /\ ~Happened(last.ev, Ev("save", "model", TRUE))
            /\ ~Happened(last.ev, Ev("save", "model", FALSE))

C7_Witness ==
    /\ last.op = "SendToolResponse"
    /\ Happened(last.ev, Ev("api", "model", FALSE))
    /\ Roles(NewEntries) = <<"tool">>

\* C8 as claimed: when the user entry cannot be persisted, SendMessageStream
\* returns an error, no item is ever emitted and the upstream is never opened.
UserSaveFailed(s) == Happened(s.ev, Ev("save", "user", FALSE))

C8_StreamPreCallFailure_AsClaimed ==
    UserSaveFailed(st) =>
        /\ st.retErr # NoErr
        /\ st.items = <<>>
        /\ st.upstream = "none"

\* C8 amended: SendMessageStream still returns its channel and a nil error; the
\* failure reaches the consumer as the only item of the stream, an error item,
\* after which the channel is closed; the upstream is never opened and nothing
\* is appended to the log.
C8_StreamPreCallFailure ==
    UserSaveFailed(st) =>
        /\ st.retErr = NoErr
        /\ st.upstream = "none"
        /\ ApiCalls(st.ev) = 0
        /\ Entries(st.turn) = <<>>
        /\ st.pc \in {"send", "closed"}
        /\ st.pc = "send" => st.items = <<>> /\ IsErrorItem(st.pending)
        /\ st.pc = "closed" => Len(st.items) = 1 /\ IsErrorItem(st.items[1])

C8_Witness ==
    /\ UserSaveFailed(st)
    /\ ChannelClosed(st)
    /\ Len(log) > 0

\* C9 as claimed: a stream turn whose upstream ended without error has at most
\* one model entry, appended after the last delta exactly when a text fragment
\* was emitted, holding the emitted fragments concatenated in order.
StreamDone(s) == s.pc = "closed" /\ s.upstream = "ended"
TextEmitted(s) == \E i \in 1..Len(s.items) : IsTextItem(s.items[i])

C9_OneRecordPerStream_AsClaimed ==
    /\ Running(st) => ModelEntries(st.turn) = <<>>
    /\ StreamDone(st) =>
        /\ Len(ModelEntries(st.turn)) = (IF TextEmitted(st) THEN 1 ELSE 0)
        /\ TextEmitted(st) =>
            /\ log[Len(log)] = Message("model", ConcatTexts(st.items), st.turn)

\* C9 amended: the one store write of the model entry is made exactly when a
\* text fragment was emitted, after the last delta; it is best effort, so the
\* entry is in the log exactly when text was emitted and that write succeeded.
C9_OneRecordPerStream ==
    /\ Running(st) => ModelEntries(st.turn) = <<>>
    /\ StreamDone(st) =>
        /\ CountIf(st.ev, LAMBDA e : e.kind = "save" /\ e.role = "model")
               = (IF TextEmitted(st) THEN 1 ELSE 0)
        /\ Len(ModelEntries(st.turn))
               = (IF TextEmitted(st) /\ Happened(st.ev, Ev("save", "model", TRUE))
                  THEN 1 ELSE 0)
        /\ Len(ModelEntries(st.turn)) = 1 =>
               log[Len(log)] = Message("model", ConcatTexts(st.items), st.turn)

C9_Witness ==
    /\ StreamDone(st)
    /\ st.reads = 2
    /\ Len(SelectSeq(st.items, IsTextItem)) >= 3
    /\ Len(ModelEntries(st.turn)) = 1
    /\ st.turn = 2

\* C10 as claimed: after an upstream error that follows at least one emitted
\* text fragment, the error is delivered as an item and the accumulated text
\* is persisted as one model entry.
StreamFailed(s) == s.pc = "closed" /\ s.upstream = "error"

C10_PersistAfterError_AsClaimed ==
    (StreamFailed(st) /\ TextEmitted(st)) =>
        /\ IsErrorItem(st.items[Len(st.items)])
        /\ CountIf(st.ev, LAMBDA e : e.kind = "save" /\ e.role = "model") = 1
        /\ Happened(st.ev, Ev("save", "model", TRUE)) =>
               ModelEntries(st.turn) = <<Message("model", st.acc, st.turn)>>

\* C10 amended: the error is delivered as the last item and the goroutine
\* returns at once: the accumulated text is dropped, no write of a model entry
\* is attempted and the turn has no model entry.
C10_PersistAfterError ==
    (StreamFailed(st) /\ TextEmitted(st)) =>
        /\ IsErrorItem(st.items[Len(st.items)])
        /\ CountIf(st.items, IsErrorItem) = 1
        /\ CountIf(st.ev, LAMBDA e : e.kind = "save" /\ e.role = "model") = 0
        /\ ModelEntries(st.turn) = <<>>

C10_Witness ==
    /\ StreamFailed(st)
    /\ Len(SelectSeq(st.items, IsTextItem)) >= 2
    /\ st.acc = ConcatTexts(st.items)
    /\ Roles(Entries(st.turn)) = <<"user">>

IsModelSave(e) == e.kind = "save" /\ e.role = "model"
NonErrorItems(items) == SelectSeq(items, LAMBDA it : it.Error = NoErr)

C12_CancelStopsProducer == st.cancelled ~> ChannelClosed(st)

\* C13: with the consumer receiving and the upstream ending or failing, the
\* channel of every started stream is eventually closed, and when it is closed
\* the consumer has received an item for every text and function-call part of
\* every delta read from upstream.
C13_StreamTermination ==
    /\ [](ChannelClosed(st) => NonErrorItems(st.items) = st.arrived)
    /\ (Running(st) ~> ChannelClosed(st))

C13_Witness ==
    /\ ChannelClosed(st)
    /\ st.reads = 2
    /\ Len(st.arrived) >= 3
    /\ st.upstream = "ended"

\* C14: a failure of the upstream stream (or of the write of the user entry)
\* reaches the consumer as exactly one item with Error set, which is the last
\* item before the channel closes; a failed turn never closes its channel
\* without that item, and no error item appears anywhere else.
C14_StreamErrorsAreItems ==
    /\ (ChannelClosed(st) /\ (st.upstream = "error" \/ UserSaveFailed(st))) =>
        /\ CountIf(st.items, IsErrorItem) = 1
        /\ IsErrorItem(st.items[Len(st.items)])
    /\ \A i \in 1..Len(st.items) :
        IsErrorItem(st.items[i]) =>
            /\ i = Len(st.items)
            /\ ChannelClosed(st)
            /\ st.upstream = "error" \/ UserSaveFailed(st)

C14_Witness ==
    /\ ChannelClosed(st)
    /\ st.upstream = "error"
    /\ Len(st.items) >= 3
    /\ IsErrorItem(st.items[Len(st.items)])

\* C15: the items of a stream are, in order, one per text part and one per
\* function-call part of the deltas read; every part of a delta has been
\* received by the consumer before the next delta is read and before the
\* stream completes.
C15_StreamItemOrder ==
    LET sent == NonErrorItems(st.items)
        held == IF st.pc = "send" /\ ~IsErrorItem(st.pending) THEN <<st.pending>> ELSE <<>>
    IN  /\ sent \o held \o PartItems(st.parts) = st.arrived
        /\ st.pc \in {"read", "saveModel", "closed"} => sent = st.arrived

C15_Witness ==
    /\ st.pc = "read"
    /\ st.reads = 1
    /\ Len(st.items) = 2
    /\ st.items[1].FunctionCall # NoCall
    /\ st.items[2].Text # NoText
    /\ st.upstream = "open"

\* C16: concurrent SendMessage calls on one chat are not mutually excluded: a
\* call can be entered, and each of its steps taken, whatever the other call is
\* doing (the witness is the log user, user, model, model).
C16_NoSerialization ==
    \A c \in Callers :
        /\ calls[c].pc = "idle" => ENABLED SendMessageEnter(c)
        /\ calls[c].pc = "saveUser" => ENABLED SendMessageSaveUser(c)
        /\ calls[c].pc = "api" => ENABLED SendMessageApi(c)
        /\ calls[c].pc = "saveModel" => ENABLED SendMessageSaveModel(c)

C16_Witness ==
    /\ Roles(log) = <<"user", "user", "model", "model">>
    /\ log[1].turn # log[2].turn
    /\ log[3].turn # log[4].turn
    /\ log[3].turn = log[1].turn

\* C17: a chat that NewChat or GetChat built was given the whole log as
\* contents: one content per entry, in log order, model entries with the model
\* role and user and tool entries with the user role.
ExpectedContents(lg) ==
    [i \in 1..Len(lg) |->
        [Role |-> IF lg[i].role = "model" THEN "model" ELSE "user",
         Parts |-> <<[Text |-> lg[i].content, FunctionCall |-> NoCall]>>]]

C17_HistoryReplay == chat.built => chat.contents = ExpectedContents(log)

\* C18: apart from the write of a model or tool entry (and the user-context
\* lookup of Generate), a failed store or API call makes the operation return
\* an error; a construction whose history read failed builds no session.
IsSwallowed(e) == e.kind = "save" /\ e.role \in {"model", "tool"}

C18_FailuresAbort ==
    /\ \A i \in 1..Len(chat.ev) :
        ~chat.ev[i].ok => chat.err # NoErr /\ ~chat.built
    /\ \A i \in 1..Len(last.ev) :
        (~last.ev[i].ok /\ ~IsSwallowed(last.ev[i])) => last.ret.Error # NoErr

\* C19: after mergeGenerationConfig(base, override) each field of base has the
\* override's value when the override sets it (pointer not nil, number not 0,
\* list not empty) and its former value otherwise; a nil override changes
\* nothing, and an override MaxOutputTokens of 0 leaves the base's value.
C19_FieldWiseMerge ==
    \A g \in GenCallers :
        gen[g].pc = "merged" =>
            LET b == gen[g].before
                o == gen[g].override.cfg
                m == heap[gen[g].base]
            IN  /\ mergeGenerationConfig(heap, gen[g].base, NilPtr) = heap
                /\ gen[g].override.nil => m = b
                /\ ~gen[g].override.nil =>
                    /\ m.Temperature = (IF o.Temperature = Nil THEN b ELSE o).Temperature
                    /\ m.TopP = (IF o.TopP = Nil THEN b ELSE o).TopP
                    /\ m.TopK = (IF o.TopK = Nil THEN b ELSE o).TopK
                    /\ m.MaxOutputTokens = (IF o.MaxOutputTokens = 0 THEN b ELSE o).MaxOutputTokens
                    /\ m.StopSequences = (IF o.StopSequences = <<>> THEN b ELSE o).StopSequences
                    /\ m.ResponseSchemaConfig
                         = (IF o.ResponseSchemaConfig = Nil THEN b ELSE o).ResponseSchemaConfig
                    /\ m.Tools = (IF o.Tools = <<>> THEN b ELSE o).Tools
                    /\ m.ToolConfig = (IF o.ToolConfig = Nil THEN b ELSE o).ToolConfig

C19_Witness ==
    /\ gen["g1"].pc = "merged"
    /\ ~gen["g1"].override.nil
    /\ gen["g1"].before = FullDefault
    /\ gen["g1"].override.cfg.MaxOutputTokens = 0
    /\ gen["g1"].override.cfg.Temperature = "o"
    /\ gen["g1"].override.cfg.Tools = <<>>
    /\ heap["g1"].MaxOutputTokens = 2
    /\ heap["g1"].Temperature = "o"

\* C20: no step of any Agent.Generate call, whatever the overrides and however
\* the calls interleave, changes a field of the agent's stored default, and the
\* copy of one call is changed by that call alone.
C20_DefaultUntouched ==
    [][/\ heap'[Stored] = heap[Stored]
       /\ \A g \in GenCallers : heap'[g] # heap[g] => gen'[g] # gen[g]]_vars

C20_Witness ==
    /\ gen["g1"].pc = "merged"
    /\ gen["g2"].pc = "merged"
    /\ ~gen["g1"].override.nil
    /\ ~gen["g2"].override.nil
    /\ heap["g1"] # heap["g2"]
    /\ heap["g1"] # heap[Stored]
    /\ heap["g2"] # heap[Stored]
    /\ heap[Stored] = FullDefault

\* C21: a chat built without a generation config of its own is built with the
\* agent's default as it was at construction, and what the session sends with
\* is that config, whatever AddTool and RemoveTool did to the agent since.
C21_InheritanceResolvedOnce ==
    agent.session.built =>
        /\ agent.session.inherited =>
                agent.session.config = WireConfig(agent.session.default)
        /\ SessionConfig(heap, agent.session) = agent.session.config
        /\ agent.used.sent => agent.used.config = agent.session.config

\* a send on an inheriting session made after the agent's tools were changed
C21_Witness ==
    /\ agent.session.built
    /\ agent.session.inherited
    /\ agent.used.sent
    /\ agent.used.default.Tools # agent.session.default.Tools

\* C22: Agent.Generate and Chat.SendMessage reject a prompt with no text, no
\* structured payload and no files with an error, before the inference API is
\* called and before anything is written to the chat's log.
C22_EmptyPromptRejected ==
    (last.op \in {"Generate", "SendMessage"} /\ last.prompt = NoText) =>
        /\ last.ret.Error # NoErr
        /\ ApiCalls(last.ev) = 0
        /\ last.after = last.before
        /\ last.ev = <<>>

\* what the prompt conversions are judged by
HasPromptContent(p) == p.Text # NoText \/ p.StructuredText # Nil \/ Len(p.Files) > 0

\* a payload JSON can encode; a file with inline contents, a remote URL or a
\* local path that can be read
Serializable(p) == p.StructuredText \notin {"chan"}
FileUsable(f) == f.Contents # "" \/ isRemoteURL(f.Path) \/ f.Path \in Readable
AllFilesUsable(p) == \A i \in 1..Len(p.Files) : FileUsable(p.Files[i])

\* number of parts before the file parts
LeadingParts(p) ==
    (IF p.Text # NoText THEN 1 ELSE 0) + (IF p.StructuredText # Nil THEN 1 ELSE 0)

\* one user-role content: the text, then the JSON of the payload, then one
\* part per file in the order of the file list
PartsInOrder(p, r) ==
    /\ r.err = NoErr
    /\ Len(r.value) = 1
    /\ r.value[1].Role = "user"
    /\ LET parts == r.value[1].Parts
           k == LeadingParts(p)
       IN  /\ Len(parts) = k + Len(p.Files)
           /\ p.Text # NoText => parts[1].Kind = "text" /\ parts[1].Text = p.Text
           /\ p.StructuredText # Nil =>
                /\ parts[k].Kind = "text"
                /\ parts[k].Text = <<"{", p.StructuredText, "}">>
           /\ \A i \in 1..Len(p.Files) :
                LET f == p.Files[i]
                    part == parts[k + i]
                IN  IF f.Contents # "" THEN part.Kind = "inline" /\ part.Data = f.Contents
                    ELSE IF isRemoteURL(f.Path)
                    THEN part.Kind = "file" /\ part.FileURI = f.Path
                    ELSE part.Kind = "inline" /\ part.Data = FileBytes(f.Path)

IsTextPart(part) == part.FunctionCall = NoCall /\ part.Text # NoText
CarriesNoCall(part) == part.FunctionCall = NoCall
IsCallPart(part) == part.FunctionCall # NoCall

\* the text a part that carries no function call stands for: its own, or
\* its JSON form when it has none
ShownAs(part) == IF part.Text # NoText THEN part.Text ELSE <<"{}">>

\* texts joined by newline
RECURSIVE JoinedByNewline(_)
JoinedByNewline(texts) ==
    IF texts = <<>> THEN <<>>
    ELSE IF Len(texts) = 1 THEN texts[1]
    ELSE texts[1] \o <<"\n">> \o JoinedByNewline(Tail(texts))

TextsOf(parts) == [i \in 1..Len(parts) |-> ShownAs(parts[i])]

RejectedResponse(res) == Len(res) = 0 \/ ~res[1].HasContent \/ Len(res[1].Parts) = 0

\* the last function call of the first candidate, if it has one
LastCallOfFirst(res, r) ==
    LET calls1 == SelectSeq(res[1].Parts, IsCallPart)
    IN  r.FunctionCall = IF calls1 = <<>> THEN NoCall ELSE calls1[Len(calls1)].FunctionCall

\* C24 as stated: Text is the text parts of the first candidate joined by
\* newline and trimmed, FunctionCall its last function call; an empty list, nil
\* content or no parts fail.
C24_TextIsTheTextParts ==
    conv.op = "ModelResponseFromGeminiContent" =>
        IF RejectedResponse(conv.in) THEN conv.out.Error # NoErr
        ELSE /\ conv.out.Error = NoErr
             /\ conv.out.Text =
                    TrimSpace(JoinedByNewline(TextsOf(SelectSeq(conv.in[1].Parts, IsTextPart))))
             /\ LastCallOfFirst(conv.in, conv.out)

\* C24 amended: Text is, for the parts of the first candidate that carry no
\* function call, their text or (for a part without text) their JSON form,
\* joined by newline in part order and trimmed; FunctionCall is the last
\* function call of the first candidate; an empty list, nil content or no
\* parts fail.
C24_ResponseConversion ==
    conv.op = "ModelResponseFromGeminiContent" =>
        IF RejectedResponse(conv.in) THEN conv.out.Error # NoErr
        ELSE /\ conv.out.Error = NoErr
             /\ conv.out.Text =
                    TrimSpace(JoinedByNewline(TextsOf(SelectSeq(conv.in[1].Parts, CarriesNoCall))))
             /\ LastCallOfFirst(conv.in, conv.out)

\* two candidates that differ, the first with two function calls that differ
C24_Witness ==
    /\ conv.op = "ModelResponseFromGeminiContent"
    /\ Len(conv.in) = 2
    /\ conv.in[1] # conv.in[2]
    /\ conv.in[1].HasContent
    /\ Len(conv.in[1].Parts) = 2
    /\ IsCallPart(conv.in[1].Parts[1])
    /\ IsCallPart(conv.in[1].Parts[2])
    /\ conv.in[1].Parts[1].FunctionCall # conv.in[1].Parts[2].FunctionCall
    /\ conv.out.Error = NoErr

\* the wire mode of the same name
SameNamedWireMode(mode) ==
    CASE mode = "MODE_UNSPECIFIED" -> "FunctionCallingConfigModeUnspecified"
      [] mode = "AUTO" -> "FunctionCallingConfigModeAuto"
      [] mode = "ANY" -> "FunctionCallingConfigModeAny"
      [] mode = "NONE" -> "FunctionCallingConfigModeNone"
      [] mode = "VALIDATED" -> "FunctionCallingConfigModeValidated"

KnownModes == {"MODE_UNSPECIFIED", "AUTO", "ANY", "NONE", "VALIDATED"}

\* C25: each known mode converts to the wire mode of its name, the empty
\* string to auto, any other string to an error; Agent.Generate and
\* Agent.NewChat with a config of such a mode return an error and make no call
\* of the inference API.
C25_ModeConversion ==
    /\ conv.op = "convertFunctionCallingMode" =>
        IF conv.in \in KnownModes
        THEN conv.out.err = NoErr /\ conv.out.value = SameNamedWireMode(conv.in)
        ELSE IF conv.in = ""
        THEN conv.out.err = NoErr /\ conv.out.value = SameNamedWireMode("AUTO")
        ELSE conv.out.err # NoErr
    /\ (conv.op = "Generate" /\ conv.in.mode \notin KnownModes \cup {"", "nil"}) =>
        /\ last.op = "Generate"
        /\ last.ret.Error # NoErr
        /\ ApiCalls(last.ev) = 0
    /\ (conv.op = "NewChat" /\ conv.in \notin KnownModes \cup {"", "nil"}) =>
        /\ chat.op = "NewChat"
        /\ chat.err # NoErr
        /\ ~chat.built
        /\ ApiCalls(chat.ev) = 0

\* a chat construction and then a Generate, both with a mode that is not known
C25_Witness ==
    /\ conv.op = "Generate"
    /\ conv.in.mode = "bogus"
    /\ last.op = "Generate"
    /\ last.ret.Error # NoErr
    /\ chat.op = "NewChat"
    /\ chat.err = <<"failed to create chat session config", "config">>

\* the schema a side's config stands for: the pre-built one, else the one
\* derived from the struct, else none
SideSchema(c) ==
    IF c.nil THEN Nil
    ELSE IF c.SchemaGenAI # Nil THEN c.SchemaGenAI
    ELSE IF c.Schema # Nil THEN "schema of " \o c.Schema
    ELSE Nil

SideJsonSchema(c) == IF c.nil THEN Nil ELSE c.SchemaJSON

\* C26: the tool built has exactly one declaration, with the tool's name and
\* description; its request-parameter schema is what the request config
\* gives (the pre-built schema before the struct-derived one) and its
\* response schema what the response config gives, so that a schema set on
\* the response side never changes the request parameters.
C26_PerSideSchemas ==
    conv.op = "BuildGeminiTool" =>
        /\ conv.out.err = NoErr
        /\ Len(conv.out.value.FunctionDeclarations) = 1
        /\ LET d == conv.out.value.FunctionDeclarations[1]
               tool == conv.in
           IN  /\ d.Name = tool.Name
               /\ d.Description = tool.Description
               /\ d.Parameters = SideSchema(tool.RequestConfig)
               /\ d.ParametersJsonSchema = SideJsonSchema(tool.RequestConfig)
               /\ d.Response = SideSchema(tool.ResponseConfig)
               /\ d.ResponseJsonSchema = SideJsonSchema(tool.ResponseConfig)

\* C27: whatever the lookup of the user gives (an error, no user, a user
\* without context, a user with context), a Generate whose config and prompt
\* convert calls the inference API exactly once and returns the converted
\* response of that call.
C27_UserContextBestEffort ==
    (conv.op = "Generate" /\ conv.out = NoErr /\ last.prompt # NoText) =>
        /\ last.op = "Generate"
        /\ ApiCalls(last.ev) = 1
        /\ IF AllSucceeded(last.ev) /\ ModelResponseFromGeminiContent(last.res).Error = NoErr
           THEN last.ret = ModelResponseFromGeminiContent(last.res)
           ELSE last.ret.Error # NoErr

\* C28: AddTool appends the tool to the agent's list and hands the whole
\* config, as it then is, to the store in the same call; RemoveTool of a name
\* no tool of the list has returns the tool-not-found error, leaves the list
\* as it was and writes nothing to the store.
C28_ToolListEdits ==
    /\ agent.last.op = "AddTool" =>
        /\ heap[Stored].Tools = Append(agent.last.before, agent.last.name)
        /\ Len(agent.last.ev) = 1
        /\ agent.last.ev[1].kind = "save"
        /\ agent.last.ev[1].role = "agent"
        /\ agent.last.saved = Ptr(heap[Stored])
    /\ (agent.last.op = "RemoveTool" /\ ~HasTool(agent.last.before, agent.last.name)) =>
        /\ agent.last.err = <<"tool not found">>
        /\ heap[Stored].Tools = agent.last.before
        /\ agent.last.ev = <<>>
        /\ agent.last.saved.nil

\* RemoveTool of an unknown name on an agent to which a tool had been added
C28_Witness ==
    /\ agent.last.op = "RemoveTool"
    /\ ~HasTool(agent.last.before, agent.last.name)
    /\ \E name \in ToolNames : HasTool(agent.last.before, name)
    /\ agent.last.err # NoErr

\* what the gateway's helpers are judged by
IsGatewayRead(op) == op \in {"getJSONBytes", "getSetByKey"}

\* C29: under a client built disabled no helper sends a command to the
\* server, every write returns success and every read returns nothing and no
\* error; the client NewGenaiClient builds is not disabled.
C29_DisabledTouchesNoStore ==
    /\ (redis.made # "none" /\ redis.isDisabled /\ redis.last.op # "none") =>
        /\ redis.last.sent = 0
        /\ redis.last.err = NoErr
        /\ IsGatewayRead(redis.last.op) => redis.last.bytes = "" /\ redis.last.ids = {}
    /\ redis.made = "NewGenaiClient" => ~redis.isDisabled

\* C30: GetChatHistory returns, without error, the messages appended to the
\* chat so far, in the order they were appended: none for a chat to which
\* nothing was appended.
C30_LogRoundTrip ==
    redis.read.chat # "" =>
        /\ redis.read.err = NoErr
        /\ redis.read.history = redis.appended[redis.read.chat]

\* C31: the contents a later GetChat replays to the upstream session are the
\* conversation the chat's live session exchanged: the same turns in the same
\* order, none missing and none added, whatever the turns were (text turns,
\* function-call turns followed by SendToolResponse, failed inference calls).
C31_RehydratedEqualsLive ==
    (chat.op = "GetChat" /\ chat.built /\ AllSucceeded(chat.ev)) => chat.contents = live

\* C32: once RemoveTool(name) has returned nil, the agent's tool list holds no
\* tool called name, and the other tools are all there in the order they had.
IsNotRemoved(t) == t # agent.last.name

C32_RemoveToolRemovesName ==
    (agent.last.op = "RemoveTool" /\ agent.last.err = NoErr) =>
        /\ ~HasTool(heap[Stored].Tools, agent.last.name)
        /\ heap[Stored].Tools = SelectSeq(agent.last.before, IsNotRemoved)

\* C33: when CreateAgent fails inside AddTool or RemoveTool, the call returns
\* an error and the agent's tool list is the list it had before the call.
C33_ToolListUnchangedOnPersistFailure ==
    (agent.last.op \in {"AddTool", "RemoveTool"} /\ ~AllSucceeded(agent.last.ev)) =>
        /\ agent.last.err # NoErr
        /\ heap[Stored].Tools = agent.last.before

\* C34: a generate call with no model in the prompt, made on the agent that
\* GetAgent(id) returned after NewAgent(config), is given the same model name
\* as on the agent NewAgent returned: the DefaultModel of the agent's config.
C34_GetAgentAsNewAgent ==
    (client.last.op = "Generate" /\ client.last.reached /\ client.last.promptModel = "") =>
        client.last.model = client.agents[client.last.agent].DefaultModel

\* C35: a chat returned by NewChat or GetChat of an agent carries that agent's
\* ID as its AgentID, so an agent opens no chat that another agent created.
C35_ChatOwnership ==
    (client.last.op \in {"NewChat", "GetChat"} /\ ~client.last.session.nil) =>
        client.last.session.agentID = client.last.agent

Pushed ==
    LET list == ValueAt(sess.db, eventsKey("app", "u1", "s1")).list
        decoded == SelectSeq(list, Unmarshals)
    IN  [i \in 1..Len(decoded) |-> UnmarshalEvent(decoded[i])]
IsPrefixOf(a, b) == Len(a) <= Len(b) /\ a = SubSeq(b, 1, Len(a))
Quiet == \A c \in Callers : sess.calls[c].pc = "idle"
AllAnswered == \A i \in 1..Len(sess.given) : sess.given[i].up
InOrderNoneLostNoneTwice ==
    /\ IsPrefixOf(Shared.events, Pushed)
    /\ Len(Pushed) <= Len(Shared.events) + 1
    /\ \A i, j \in 1..Len(Pushed) : Pushed[i].ID = Pushed[j].ID => i = j
    /\ \A i \in 1..Len(Pushed) : \E j \in 1..Len(sess.given) : sess.given[j].event = Pushed[i]
    /\ Quiet =>
        /\ Shared.events = Pushed
        /\ Len(Pushed) = Len(sess.given)

Answered ==
    LET ok == SelectSeq(sess.given, LAMBDA g : g.up)
    IN  [i \in 1..Len(ok) |-> ok[i].event]
LastOf(seq, n) == IF Len(seq) <= n THEN seq ELSE SubSeq(seq, Len(seq) - n + 1, Len(seq))

C39_StateIsolation ==
    (sess.last.op = "Get" /\ sess.last.err = NoErr) =>
        DOMAIN sess.last.session.state \subseteq sess.wrote[sess.last.user]

\* the sessions of the user that the server held when the last call began
Existing(user) ==
    {id \in SessionIds : Exists(sess.last.before.db, sessionKey("app", user, id))}
Listed(id) == Len(SelectSeq(sess.last.sessions, LAMBDA s : s.id = id))

\* C40: List(app, user) returns each existing session of the app and user
\* exactly once, returns no session that was never created, and leaves every
\* key of the server as it was.
C40_ListIsPureListing ==
    (sess.last.op = "List" /\ sess.last.up) =>
        /\ \A id \in Existing(sess.last.user) : Listed(id) = 1
        /\ \A i \in 1..Len(sess.last.sessions) :
            sess.last.sessions[i].id \in Existing(sess.last.user)
        /\ sess.db = sess.last.before.db

====
